---- MODULE Spec2Model ----
(***************************************************************************)
(* Follow-up notification lifecycle of sales-ops-hub:                      *)
(*   - createJobAndTask        (lib/telegram/followup.ts)                  *)
(*   - upsertChatPhaseIfAdvanced (lib/telegram/updateChatPhase.ts)         *)
(*   - POST /tasks/notifications (index.ts), driven by the task queue      *)
(* The Firestore collections are functions from document id to document,   *)
(* the delivery log is a bag of documents, the Cloud Tasks queue is a bag  *)
(* of tasks carrying their retry count.                                    *)
(***************************************************************************)
EXTENDS Integers, Sequences, FiniteSets, Bags, TLC

\* ---------------------------------------------------------------- bounds
NumChats == 1
NumMsgs == 1
MaxTime == 1
MaxTs == 2
MaxCreates == 2
MaxPhaseCalls == 2
NumProcs == 2
MaxPhaseMsg == 2
MaxDeliveries == 1
MaxRetryCount == 5
\* Origins of the planner: every OriginStep minutes from the epoch, for more
\* than a week; day counts passed to scheduleAtJST.
OriginStep == 30
MaxOriginIndex == 400
MaxDays == 6
MaxFaultyCalls == 2

Chats == 1..NumChats
Msgs == 1..NumMsgs
Times == 1..MaxTime
PhaseTimes == 1..MaxTs
Procs == 1..NumProcs
PhaseMsgs == 1..MaxPhaseMsg

\* ------------------------------------------------------- program constants
MAX_ATTEMPTS == 5

NotificationType ==
  { "follow_up_bot_join_call_check",
    "follow_up_proposal_1st", "follow_up_proposal_2nd",
    "follow_up_invoice_1st", "follow_up_invoice_2nd",
    "follow_up_calendly",
    "follow_up_agreement_1st", "follow_up_agreement_2nd" }

ChatPhase ==
  { "BotAdded", "CalendlyLinkShared", "ProposalSent", "AgreementSent", "InvoiceSent" }

\* Rank of a phase value; a missing value ranks 0 (currPri of an absent phase).
PHASE_PRIORITY(v) ==
  CASE v = "BotAdded" -> 1
    [] v = "CalendlyLinkShared" -> 2
    [] v = "ProposalSent" -> 3
    [] v = "AgreementSent" -> 4
    [] v = "InvoiceSent" -> 5
    [] OTHER -> 0

\* A map that also gives the reminder types the phase of their base type.
PhaseByNotifWithReminders(t) ==
  CASE t = "follow_up_bot_join_call_check" -> "BotAdded"
    [] t = "follow_up_calendly" -> "CalendlyLinkShared"
    [] t \in {"follow_up_proposal_1st", "follow_up_proposal_2nd"} -> "ProposalSent"
    [] t \in {"follow_up_agreement_1st", "follow_up_agreement_2nd"} -> "AgreementSent"
    [] t \in {"follow_up_invoice_1st", "follow_up_invoice_2nd"} -> "InvoiceSent"
    [] OTHER -> "none"


\* Partial map notification type -> phase; "none" where the map has no entry.
PHASE_BY_NOTIF(t) ==
  CASE t = "follow_up_bot_join_call_check" -> "BotAdded"
    [] t = "follow_up_calendly" -> "CalendlyLinkShared"
    [] t = "follow_up_proposal_1st" -> "ProposalSent"
    [] t = "follow_up_agreement_1st" -> "AgreementSent"
    [] t = "follow_up_invoice_1st" -> "InvoiceSent"
    [] OTHER -> "none"

\* Position of a type in the enum, used by the digest below.
TypeIndex(t) ==
  CASE t = "follow_up_bot_join_call_check" -> 0
    [] t = "follow_up_proposal_1st" -> 1
    [] t = "follow_up_proposal_2nd" -> 2
    [] t = "follow_up_invoice_1st" -> 3
    [] t = "follow_up_invoice_2nd" -> 4
    [] t = "follow_up_calendly" -> 5
    [] t = "follow_up_agreement_1st" -> 6
    [] t = "follow_up_agreement_2nd" -> 7

\* A job id derived from the chat and the message only.
hashIdNoType(t, c, m) == (c - 1) * NumMsgs + (m - 1)

\* hashId("job:<type>:<chatId>:<messageId>"): a deterministic digest, free of
\* collisions on the ids of the model (sha256 truncated to 24 hex digits).
hashId(t, c, m) == (TypeIndex(t) * NumChats + (c - 1)) * NumMsgs + (m - 1)

JobIds == 0..(8 * NumChats * NumMsgs - 1)

\* Slack target lists a trigger can resolve to (each target a user id).
TargetLists == { <<>>, << [teamId |-> "T1", userId |-> "U1"] >> }

\* Outcomes of the fetch to the Slack webhook: a response with a status, or a
\* thrown transport error (respStatus then stays 0).
HttpStatuses == { 200, 404, 429, 503 }
Outcomes ==
  [kind : {"response"}, status : HttpStatuses] \cup { [kind |-> "throw", status |-> 0] }

\* ------------------------------------------------------- utils/time.ts
\* The model's clock counts minutes since 1970-01-01T00:00Z (the source counts
\* milliseconds; every quantity below is a whole number of minutes).
ONE_HOUR_MS == 60
JST_OFFSET_MS == 9 * ONE_HOUR_MS
ONE_DAY_MS == 24 * ONE_HOUR_MS

\* A calendar date (getUTCFullYear, getUTCMonth, getUTCDate of an instant) is
\* the number of whole days since 1970-01-01.
getUTCDate(t) == t \div ONE_DAY_MS
getUTCHours(t) == (t % ONE_DAY_MS) \div ONE_HOUR_MS
\* 0 = Sunday .. 6 = Saturday; 1970-01-01 was a Thursday.
getUTCDay(t) == (getUTCDate(t) + 4) % 7
\* Date.UTC(y, m, d, hour, minute)
Date_UTC(date, hour, minute) == date * ONE_DAY_MS + hour * ONE_HOUR_MS + minute

\* The loop of addDaysJST: cur advances one day at a time and d counts the
\* days that are neither Sunday nor Saturday.
RECURSIVE addDaysLoop(_, _, _)
addDaysLoop(cur, d, days) ==
  IF d < days
    THEN LET next == cur + ONE_DAY_MS
             dow == getUTCDay(next)
         IN addDaysLoop(next, IF dow # 0 /\ dow # 6 THEN d + 1 ELSE d, days)
    ELSE cur

\* An addDaysJST that counts calendar days whatever businessDays says.
addDaysJSTCalendar(baseUTCDateAt00Z, days, businessDays) ==
  baseUTCDateAt00Z + days * ONE_DAY_MS

addDaysJST(baseUTCDateAt00Z, days, businessDays) ==
  IF ~businessDays
    THEN baseUTCDateAt00Z + days * ONE_DAY_MS
    ELSE addDaysLoop(baseUTCDateAt00Z, 0, days)

\* opts ?? defaults of scheduleAtJST
DefaultOpts == [days |-> 3, hour |-> 15, minute |-> 0, businessDays |-> TRUE]

scheduleAtJST(sentAt, opts) ==
  LET jst == sentAt + JST_OFFSET_MS
      baseJSTCalendarAt00Z == Date_UTC(getUTCDate(jst), 0, 0)
      targetJSTCalendarAt00Z ==
        addDaysJST(baseJSTCalendarAt00Z, opts.days, opts.businessDays)
  IN Date_UTC(getUTCDate(targetJSTCalendarAt00Z), opts.hour, opts.minute)
       - JST_OFFSET_MS

\* ------------------------------------------- followup.ts: the planner
\* mk(type, days): scheduleAtJST(sentAt, { days })
mk(type, days, sentAt) ==
  [ type |-> type,
    scheduledAt |-> scheduleAtJST(sentAt, [DefaultOpts EXCEPT !.days = days]) ]

\* The bot-join branch of getFollowupSchedules: plus3 is the origin plus
\* three hours, jst the same instant on the clock shifted by nine hours; the
\* snapped value is Date.UTC(y, m, d, 2) built from jst's date; nine hours are
\* then subtracted from whichever value was chosen.
botJoinSchedule(sentAt) ==
  LET plus3 == sentAt + 3 * ONE_HOUR_MS
      jst == plus3 + 9 * ONE_HOUR_MS
      h == getUTCHours(jst)
      scheduledJst == IF h >= 3 /\ h <= 11
                        THEN Date_UTC(getUTCDate(jst), 2, 0)
                        ELSE jst
  IN scheduledJst - 9 * ONE_HOUR_MS

\* A planner whose second proposal reminder is five business days out.
getFollowupSchedulesFiveDays(notifType, sentAt) ==
  CASE notifType = "follow_up_proposal_1st" ->
         << mk("follow_up_proposal_1st", 3, sentAt),
            mk("follow_up_proposal_2nd", 5, sentAt) >>
    [] OTHER -> << mk(notifType, 4, sentAt) >>

getFollowupSchedules(notifType, sentAt) ==
  CASE notifType = "follow_up_bot_join_call_check" ->
         << [ type |-> "follow_up_bot_join_call_check",
              scheduledAt |-> botJoinSchedule(sentAt) ] >>
    [] notifType = "follow_up_proposal_1st" ->
         << mk("follow_up_proposal_1st", 3, sentAt),
            mk("follow_up_proposal_2nd", 6, sentAt) >>
    [] notifType = "follow_up_proposal_2nd" ->
         << mk("follow_up_proposal_2nd", 6, sentAt) >>
    [] notifType = "follow_up_invoice_1st" ->
         << mk("follow_up_invoice_1st", 2, sentAt),
            mk("follow_up_invoice_2nd", 4, sentAt) >>
    [] notifType = "follow_up_invoice_2nd" ->
         << mk("follow_up_invoice_2nd", 4, sentAt) >>
    [] notifType = "follow_up_calendly" ->
         << mk("follow_up_calendly", 1, sentAt) >>
    [] notifType = "follow_up_agreement_1st" ->
         << mk("follow_up_agreement_1st", 2, sentAt),
            mk("follow_up_agreement_2nd", 4, sentAt) >>
    [] notifType = "follow_up_agreement_2nd" ->
         << mk("follow_up_agreement_2nd", 4, sentAt) >>
    [] OTHER -> << >>


\* ------------------------------------------ followup.ts: the classifier
\* Telegram user ids as String(msg.from.id) gives them; "null" is a message
\* without from.
INTERNAL_USER_IDS ==
  { "5106417385", "5302025575", "6217645240", "7888860699", "6288713798",
    "1878347283", "951221958", "5559185358", "6292079093" }

Senders == { "5106417385", "951221958", "777000111", "null" }

\* An isFromInternal that lets every sender with an id through.
isFromInternalAnyone(senderId) == senderId # "null"

isFromInternal(senderId) ==
  IF senderId = "null" THEN FALSE ELSE senderId \in INTERNAL_USER_IDS

\* Strings found in msg.text and msg.caption, and in msg.document.file_name
\* ("none": the message has no document).
Texts ==
  { "", "hello team",
    "Proposal: https://docs.google.com/document/d/1",
    "Agreement https://drive.google.com/file/d/2",
    "docs.google.com/d/3 proposal and agreement",
    "our proposal is attached",
    "book here: https://Calendly.com/acme/intro",
    "calendly.com/acme proposal docs.google.com/d/4",
    "invoice for March" }

FileNames == { "none", "", "INVOICE_2024.pdf", "Proposal_v2.pdf" }

BOT_USERNAME == "sales_ops_assistant_bot"
MemberLists == { << >>, << "alice" >>, << "alice", BOT_USERNAME >> }

Messages ==
  [ from : Senders, text : Texts, caption : Texts, fileName : FileNames,
    new_chat_members : MemberLists, photo : BOOLEAN ]

\* String.prototype.toLowerCase on the strings above.
toLowerCase(s) ==
  CASE s = "Proposal: https://docs.google.com/document/d/1" ->
         "proposal: https://docs.google.com/document/d/1"
    [] s = "Agreement https://drive.google.com/file/d/2" ->
         "agreement https://drive.google.com/file/d/2"
    [] s = "book here: https://Calendly.com/acme/intro" ->
         "book here: https://calendly.com/acme/intro"
    [] s = "invoice for March" -> "invoice for march"
    [] s = "INVOICE_2024.pdf" -> "invoice_2024.pdf"
    [] s = "Proposal_v2.pdf" -> "proposal_v2.pdf"
    [] OTHER -> s

\* The keywords of the classifier that occur in a string as written.
Substrings(s) ==
  CASE s = "proposal: https://docs.google.com/document/d/1" ->
         { "proposal", "docs.google.com" }
    [] s = "Proposal: https://docs.google.com/document/d/1" ->
         { "docs.google.com" }
    [] s = "agreement https://drive.google.com/file/d/2" ->
         { "agreement", "drive.google.com" }
    [] s = "Agreement https://drive.google.com/file/d/2" ->
         { "drive.google.com" }
    [] s = "docs.google.com/d/3 proposal and agreement" ->
         { "docs.google.com", "proposal", "agreement" }
    [] s = "our proposal is attached" -> { "proposal" }
    [] s = "book here: https://calendly.com/acme/intro" -> { "calendly.com" }
    [] s = "calendly.com/acme proposal docs.google.com/d/4" ->
         { "calendly.com", "proposal", "docs.google.com" }
    [] s \in { "invoice for march", "invoice for March", "invoice_2024.pdf" } ->
         { "invoice" }
    [] s = "proposal_v2.pdf" -> { "proposal" }
    [] OTHER -> { }

\* String.prototype.includes
includes(s, kw) == kw \in Substrings(s)

\* detectMessageType
detectMessageType(message) ==
  IF Len(message.new_chat_members) > 0 THEN "member_join"
  ELSE IF message.text # "" THEN "text"
  ELSE IF message.photo THEN "photo"
  ELSE IF message.fileName # "none" THEN "document"
  ELSE "other"

\* `${caption}\n${text}\n${fileName}`.toLowerCase() contains kw: no keyword
\* holds a line break, so kw lies within one of the three parts.
combinedHas(msg, kw) ==
  \/ includes(toLowerCase(msg.caption), kw)
  \/ includes(toLowerCase(msg.text), kw)
  \/ msg.fileName # "none" /\ includes(toLowerCase(msg.fileName), kw)

\* The earlier rule set: a proposal is a document whose text has "proposal".
getFollowupTypeDocumentRule(msg, type) ==
  IF ~isFromInternal(msg.from) THEN "null"
  ELSE IF /\ type = "member_join"
          /\ \E i \in DOMAIN msg.new_chat_members :
               msg.new_chat_members[i] = BOT_USERNAME
    THEN "follow_up_bot_join_call_check"
  ELSE IF type = "document" /\ combinedHas(msg, "proposal")
    THEN "follow_up_proposal_1st"
  ELSE IF type = "document" /\ combinedHas(msg, "invoice")
    THEN "follow_up_invoice_1st"
  ELSE IF combinedHas(msg, "calendly.com") THEN "follow_up_calendly"
  ELSE IF /\ \E k \in { "docs.google.com", "drive.google.com" } :
               combinedHas(msg, k)
          /\ combinedHas(msg, "agreement")
    THEN "follow_up_agreement_1st"
  ELSE "null"

getFollowupType(msg, type) ==
  IF ~isFromInternal(msg.from) THEN "null"
  ELSE
    LET has(kw) == combinedHas(msg, kw)
        hasAny(kws) == \E k \in kws : combinedHas(msg, k)
        isBotJoinCallCheck ==
          /\ type = "member_join"
          /\ \E i \in DOMAIN msg.new_chat_members :
               msg.new_chat_members[i] = BOT_USERNAME
        isProposalDoc ==
          hasAny({ "docs.google.com", "drive.google.com" }) /\ has("proposal")
        isInvoiceDoc == type = "document" /\ has("invoice")
        isCalendly == has("calendly.com")
        isAgreement ==
          hasAny({ "docs.google.com", "drive.google.com" }) /\ has("agreement")
    IN IF isBotJoinCallCheck THEN "follow_up_bot_join_call_check"
       ELSE IF isProposalDoc THEN "follow_up_proposal_1st"
       ELSE IF isInvoiceDoc THEN "follow_up_invoice_1st"
       ELSE IF isCalendly THEN "follow_up_calendly"
       ELSE IF isAgreement THEN "follow_up_agreement_1st"
       ELSE "null"


\* ------------------------------------------------------------------ state
VARIABLES
  jobs,        \* notificationJobs: jobId -> job document or NoJob
  deliveries,  \* notificationDeliveries: bag of delivery documents
  chats,       \* tg_chats: chatId -> chat document (its phase) or NoDoc
  tasks,       \* Cloud Tasks queue: bag of [jobId, retryCount]
  webhookUrl,  \* process.env.SLACK_WEBHOOK_URL is set
  jobStats,    \* per jobId, since its record was written: callbacks, sends, 2xx
  last,        \* the last completed request and what it answered
  nCreates,    \* createJobAndTask calls and follow-up triggers so far
  nPhaseCalls, \* direct upsertChatPhaseIfAdvanced calls so far
  procs,       \* requests in flight (interleaved executions)
  people,      \* people: the person documents, in document-id order
  CACHE,       \* the resolver's in-memory map, as its set of (key, value) entries
  seenUpdateIds,    \* dedup cache: the lookup set of update ids
  updateQueue,      \* dedup cache: the same ids in admission order
  admitted,         \* the update ids isDuplicateUpdateId answered false for, in order
  reports_settings, \* reports_settings: setting id -> document or NoDoc
  messages,         \* tg_chats/{chatId}/messages: <<chat, message>> -> document or NoDoc
  tg_users,         \* tg_users: sender id -> document or NoDoc
  chatStats,        \* tg_chats/{chatId}: latestMessage and stats.messageCount
  ensures           \* ensureReportSetting calls in flight or returned

vars ==
  << jobs, deliveries, chats, tasks, webhookUrl, jobStats, last, nCreates,
     nPhaseCalls, procs, people, CACHE, seenUpdateIds, updateQueue,
     admitted, reports_settings, messages, tg_users, chatStats, ensures >>

\* The webhook's own stores and the dedup cache.
ingest ==
  << seenUpdateIds, updateQueue, admitted, reports_settings, messages, tg_users,
     chatStats, ensures >>

NoJob == [exists |-> FALSE]
NoDoc == [exists |-> FALSE]
NoPhase == [value |-> "none", ts |-> 0, messageId |-> 0]
NoStats == [calls |-> 0, sends |-> 0, accepted |-> 0]

\* A request to POST /tasks/notifications: the caller's User-Agent names
\* Google-Cloud-Tasks, the content type is JSON, the body carries a string
\* jobId, and the retry count header.
NoRequest ==
  [ fromCloudTasks |-> FALSE, json |-> FALSE, hasJobId |-> FALSE, jobId |-> 0,
    retryCount |-> 0 ]

NoCall ==
  [ op |-> "none", id |-> 0, again |-> FALSE, wrote |-> FALSE, status |-> 0,
    branch |-> "none", attempt |-> 0, sent |-> FALSE, marked |-> FALSE,
    outcome |-> 0, value |-> "none", next |-> NoPhase, req |-> NoRequest ]

NoOut == [kind |-> "none", status |-> 0]

\* buildReportSettingId: "<type>:<id>:<cadence>", kept as its three parts.
buildReportSettingId(target, cadence) == << target.type, target.id, cadence >>

SettingIds == { buildReportSettingId([type |-> "chat", id |-> c], "weekly") : c \in Chats }

\* An ensureReportSetting call that has not started.
IdleEnsure ==
  [ pc |-> "idle", id |-> << >>, name |-> "", snapExists |-> FALSE,
    created |-> FALSE, staged |-> FALSE, result |-> FALSE, threw |-> FALSE ]

\* A chat document's latest message and message count before any message.
NoActivity == [latestMessage |-> 0, messageCount |-> 0]

IdleProc ==
  [ pc |-> "idle", jobId |-> 0, attempt |-> 0, job |-> NoJob,
    out |-> NoOut, branch |-> "none",
    chat |-> 0, next |-> NoPhase, snap |-> NoDoc ]

InitStores ==
  /\ jobs = [j \in JobIds |-> NoJob]
  /\ deliveries = EmptyBag
  \* a chat document is absent, or is one written before phases existed
  /\ chats \in [Chats -> { NoDoc, [exists |-> TRUE, phase |-> NoPhase] }]
  /\ tasks = EmptyBag
  /\ webhookUrl \in BOOLEAN
  /\ jobStats = [j \in JobIds |-> NoStats]
  /\ last = NoCall
  /\ nCreates = 0
  /\ nPhaseCalls = 0
  /\ procs = [p \in Procs |-> IdleProc]
  /\ CACHE = { }
  /\ seenUpdateIds = { }
  /\ updateQueue = << >>
  /\ admitted = << >>
  /\ reports_settings = [id \in SettingIds |-> NoDoc]
  /\ messages = [k \in Chats \X PhaseMsgs |-> NoDoc]
  /\ tg_users = [u \in Senders |-> NoDoc]
  /\ chatStats = [c \in Chats |-> NoActivity]
  /\ ensures = [p \in Procs |-> IdleEnsure]

\* No person documents yet.
Init == InitStores /\ people = << >>

\* ------------------------------------------------- upsertChatPhaseIfAdvanced
\* A decision whose idempotence test also compares ts, and whose rank test
\* lets an equal rank through.
PhaseDecisionTsKeyed(snap, next) ==
  IF ~snap.exists
    THEN [write |-> "set", applied |-> TRUE]
  ELSE IF snap.phase = next
    THEN [write |-> "none", applied |-> FALSE]
  ELSE IF PHASE_PRIORITY(next.value) >= PHASE_PRIORITY(snap.phase.value)
          \/ snap.phase.value = "none"
    THEN [write |-> "update", applied |-> TRUE]
  ELSE [write |-> "none", applied |-> FALSE]

\* A decision whose rank test lets an equal rank through.
PhaseDecisionGeq(snap, next) ==
  IF ~snap.exists
    THEN [write |-> "set", applied |-> TRUE]
  ELSE IF snap.phase.value = next.value /\ snap.phase.messageId = next.messageId
    THEN [write |-> "none", applied |-> FALSE]
  ELSE IF PHASE_PRIORITY(next.value) >= PHASE_PRIORITY(snap.phase.value)
          \/ snap.phase.value = "none"
    THEN [write |-> "update", applied |-> TRUE]
  ELSE [write |-> "none", applied |-> FALSE]

\* A decision that leaves out the rank comparison.
PhaseDecisionNoRank(snap, next) ==
  IF ~snap.exists
    THEN [write |-> "set", applied |-> TRUE]
  ELSE IF snap.phase.value = next.value /\ snap.phase.messageId = next.messageId
    THEN [write |-> "none", applied |-> FALSE]
  ELSE [write |-> "update", applied |-> TRUE]

\* The decision taken on the snapshot `snap` of tg_chats/{chatId}:
\* which write follows ("set", "update" or "none") and the value returned.
PhaseDecision(snap, next) ==
  IF ~snap.exists
    THEN [write |-> "set", applied |-> TRUE]
  ELSE IF snap.phase.value = next.value /\ snap.phase.messageId = next.messageId
    THEN [write |-> "none", applied |-> FALSE]
  ELSE IF PHASE_PRIORITY(next.value) > PHASE_PRIORITY(snap.phase.value)
          \/ snap.phase.value = "none"
    THEN [write |-> "update", applied |-> TRUE]
  ELSE [write |-> "none", applied |-> FALSE]

\* A write that replaces the value and keeps the ts and messageId stored.
PhaseWrittenValueOnly(cs, c, d, next) ==
  IF d.write = "none" THEN cs
  ELSE IF ~cs[c].exists THEN [cs EXCEPT ![c] = [exists |-> TRUE, phase |-> next]]
  ELSE [cs EXCEPT ![c].phase.value = next.value]

\* The chat collection after the write decided on: set({phase}, merge) and
\* update({phase}) both replace the phase field of the document.
PhaseWritten(cs, c, d, next) ==
  IF d.write = "none" THEN cs
  ELSE [cs EXCEPT ![c] = [exists |-> TRUE, phase |-> next]]

\* One whole call, read and write with nothing in between.
PhaseAfter(cs, c, next) == PhaseWritten(cs, c, PhaseDecision(cs[c], next), next)

UpsertChatPhaseIfAdvanced(c, next) ==
  /\ nPhaseCalls < MaxPhaseCalls
  /\ nPhaseCalls' = nPhaseCalls + 1
  /\ chats' = PhaseAfter(chats, c, next)
  /\ last' = [NoCall EXCEPT !.op = "upsertChatPhaseIfAdvanced", !.id = c,
                            !.wrote = PhaseDecision(chats[c], next).applied,
                            !.value = next.value, !.next = next]
  /\ UNCHANGED << ingest, people, CACHE, jobs, deliveries, tasks, webhookUrl, jobStats, nCreates, procs >>

\* ------------------------------------------------------ webhook chat upsert
\* buildNewChatRoomDoc: a first-time chat document starts in phase BotAdded.
buildNewChatRoomDoc(m, sentAt) ==
  [exists |-> TRUE, phase |-> [value |-> "BotAdded", ts |-> sentAt, messageId |-> m]]

\* POST /webhook/telegram, step 6: create the chat document when the read
\* finds none, otherwise merge a partial update that carries no phase field.
WebhookChatUpsert(c, m, sentAt) ==
  /\ chats' = IF ~chats[c].exists
                THEN [chats EXCEPT ![c] = buildNewChatRoomDoc(m, sentAt)]
                ELSE chats
  /\ last' = [NoCall EXCEPT !.op = "webhookChatUpsert", !.id = c,
                            !.wrote = ~chats[c].exists]
  /\ UNCHANGED << ingest, people, CACHE, jobs, deliveries, tasks, webhookUrl, jobStats, nCreates,
                  nPhaseCalls, procs >>

\* ------------------------------------------------------------ createJobAndTask
\* The pending job document written by jobRef.set(jobDoc, {merge: false}).
NewJobDoc(jobId, notifType, scheduledAt, c, m, slackTargets, now) ==
  [ exists |-> TRUE, jobId |-> jobId, type |-> notifType, channel |-> "slack",
    scheduledAt |-> scheduledAt, status |-> "pending", targets |-> slackTargets,
    payload |-> [chatId |-> c, messageId |-> m],
    source |-> [kind |-> "message", id |-> m],
    createdAt |-> now, sentOnce |-> FALSE, lastSentAt |-> 0 ]

\* A creation without the existence check.
JobNeverSkips(jobSnap) == FALSE

\* "Skip if already exists": the early return on jobSnap.exists.
JobExistsSkip(jobSnap) == jobSnap.exists

\* The task registered by enqueueHttpEtaTask for a job.
NewTask(jobId) == [jobId |-> jobId, retryCount |-> 0]

\* A call that, finding the job present, registers a task for it when the
\* queue holds none.
AfterCreateReRegisters(st, notifType, scheduledAt, c, m, slackTargets, now, enqueueOk) ==
  LET jobId == hashId(notifType, c, m)
      skip == JobExistsSkip(st.jobs[jobId])
      orphan == \A t \in BagToSet(st.tasks) : t.jobId # jobId
  IN [ jobs |-> IF skip THEN st.jobs
                ELSE [st.jobs EXCEPT ![jobId] =
                        NewJobDoc(jobId, notifType, scheduledAt, c, m,
                                  slackTargets, now)],
       jobStats |-> IF skip THEN st.jobStats
                    ELSE [st.jobStats EXCEPT ![jobId] = NoStats],
       tasks |-> IF (skip /\ ~orphan) \/ ~enqueueOk THEN st.tasks
                 ELSE st.tasks (+) SetToBag({NewTask(jobId)}),
       chats |-> st.chats,
       wrote |-> ~skip,
       threw |-> ~enqueueOk /\ (~skip \/ orphan) ]

\* The stores after one whole call, from the stores st before it.  enqueueOk =
\* FALSE is client.createTask rejecting: the call throws after the job document
\* is written and before the phase is advanced.
AfterCreate(st, notifType, scheduledAt, c, m, slackTargets, now, enqueueOk) ==
  LET jobId == hashId(notifType, c, m)
      skip == JobExistsSkip(st.jobs[jobId])
      mappedPhase == PHASE_BY_NOTIF(notifType)
  IN [ jobs |-> IF skip THEN st.jobs
                ELSE [st.jobs EXCEPT ![jobId] =
                        NewJobDoc(jobId, notifType, scheduledAt, c, m,
                                  slackTargets, now)],
       jobStats |-> IF skip THEN st.jobStats
                    ELSE [st.jobStats EXCEPT ![jobId] = NoStats],
       tasks |-> IF skip \/ ~enqueueOk THEN st.tasks
                 ELSE st.tasks (+) SetToBag({NewTask(jobId)}),
       chats |-> IF skip \/ ~enqueueOk \/ mappedPhase = "none" THEN st.chats
                 ELSE PhaseAfter(st.chats, c,
                        [value |-> mappedPhase, ts |-> now, messageId |-> m]),
       wrote |-> ~skip,
       threw |-> ~skip /\ ~enqueueOk ]

\* One whole call on the stores.
CreateJobAndTask(notifType, scheduledAt, c, m, slackTargets, now, enqueueOk) ==
  /\ nCreates < MaxCreates
  /\ nCreates' = nCreates + 1
  /\ LET jobId == hashId(notifType, c, m)
         r == AfterCreate([jobs |-> jobs, jobStats |-> jobStats,
                           tasks |-> tasks, chats |-> chats],
                          notifType, scheduledAt, c, m, slackTargets, now,
                          enqueueOk)
     IN /\ jobs' = r.jobs
        /\ jobStats' = r.jobStats
        /\ tasks' = r.tasks
        /\ chats' = r.chats
        /\ last' = [NoCall EXCEPT !.op = "createJobAndTask", !.id = jobId,
                      !.wrote = r.wrote,
                      !.again = (last.op = "createJobAndTask" /\ last.id = jobId)]
  /\ UNCHANGED << ingest, people, CACHE, deliveries, webhookUrl, nPhaseCalls, procs >>

\* ----------------------------------------------- handleFollowupTriggers
\* Slack links of a person document: workspace, user (possibly missing, "")
\* and prefs.enabled.
SlackLinks ==
  { [teamId |-> "T1", userId |-> "U1", enabled |-> FALSE],
    [teamId |-> "T2", userId |-> "U2", enabled |-> TRUE],
    [teamId |-> "T2", userId |-> "", enabled |-> TRUE] }

LinkLists ==
  { << >> } \cup { << a >> : a \in SlackLinks }
            \cup { << a, b >> : a \in SlackLinks, b \in SlackLinks }

INCLUDE_PERSON_IDS ==
  { "0UvQYfArgM2TrluTjUEX", "UDCrchwnyUdsWB6KIQgV", "lDuGIr68v1OJ4hJUMZEC" }

\* The people collection, in document-id order: empty, or the document of a
\* teammate named in INCLUDE_PERSON_IDS followed by the document of the
\* sender "5106417385" with any list of links.
Directories ==
  { << >> } \cup
  { << [ id |-> "UDCrchwnyUdsWB6KIQgV", tgUserId |-> "951221958",
         slack |-> << [teamId |-> "T1", userId |-> "U9", enabled |-> TRUE] >> ],
       [ id |-> "p_sender", tgUserId |-> "5106417385", slack |-> links ] >> :
    links \in LinkLists }

\* .map(s => ({ teamId, userId })).filter(t => t.teamId && t.userId)
sanitize(links) ==
  SelectSeq([i \in DOMAIN links |->
               [teamId |-> links[i].teamId, userId |-> links[i].userId]],
            LAMBDA t : t.teamId # "" /\ t.userId # "")

\* where("telegram.userId", "==", tgUserId).limit(1): the first matching
\* document, or NoDoc.
personByTelegramId(dir, tgUserId) ==
  LET hits == { i \in DOMAIN dir : dir[i].tgUserId = tgUserId }
  IN IF hits = {} THEN NoDoc
     ELSE [ exists |-> TRUE,
            slack |-> dir[CHOOSE i \in hits : \A k \in hits : i <= k].slack ]

\* A sender branch that keeps one target, chosen as the resolver chooses it
\* without a workspace: the first enabled link with a user, else the first
\* link.
senderTargetsOnePreferred(dir, from) ==
  LET doc == personByTelegramId(dir, from)
      links == IF doc.exists THEN sanitize(doc.slack) ELSE << >>
      on == IF doc.exists
              THEN SelectSeq(doc.slack, LAMBDA l : l.enabled /\ l.userId # "")
              ELSE << >>
  IN IF on # << >> THEN sanitize(<< on[1] >>)
     ELSE IF links # << >> THEN << links[1] >>
     ELSE << >>

\* The sender branch: every link of the sender's person document that has a
\* team and a user.  from = "null": String(msg.from?.id ?? "") is empty.
senderTargets(dir, from) ==
  IF from = "null" THEN << >>
  ELSE LET doc == personByTelegramId(dir, from)
       IN IF doc.exists THEN sanitize(doc.slack) ELSE << >>

\* The bot-join branch: the links of the documents named in
\* INCLUDE_PERSON_IDS, in document order.
RECURSIVE includedLinks(_, _)
includedLinks(dir, i) ==
  IF i > Len(dir) THEN << >>
  ELSE (IF dir[i].id \in INCLUDE_PERSON_IDS THEN dir[i].slack ELSE << >>)
         \o includedLinks(dir, i + 1)

broadcastTargets(dir) == sanitize(includedLinks(dir, 1))

\* A loop that stops after the first schedule.
createAllFirstOnly(st, schedules, i, c, m, slackTargets, now, enq) ==
  IF schedules = << >> THEN st
  ELSE AfterCreate(st, schedules[1].type, schedules[1].scheduledAt,
                   c, m, slackTargets, now, enq[1])

\* The for loop over the schedules: createJobAndTask for each, in order; a
\* call that throws ends the loop.  enq[i] is whether the i-th registration
\* with the queue succeeds.
RECURSIVE createAll(_, _, _, _, _, _, _, _)
createAll(st, schedules, i, c, m, slackTargets, now, enq) ==
  IF i > Len(schedules) THEN st
  ELSE LET r == AfterCreate(st, schedules[i].type, schedules[i].scheduledAt,
                            c, m, slackTargets, now, enq[i])
       IN IF r.threw THEN r
          ELSE createAll(r, schedules, i + 1, c, m, slackTargets, now, enq)

\* One whole call for message m of chat c, sent at sentAt.
HandleFollowupTriggers(msg, c, m, sentAt, now, enq) ==
  /\ nCreates < MaxCreates
  /\ nCreates' = nCreates + 1
  /\ LET baseType == getFollowupType(msg, detectMessageType(msg))
         schedules == IF baseType = "null" THEN << >>
                      ELSE getFollowupSchedules(baseType, sentAt)
         slackTargets ==
           IF baseType = "follow_up_bot_join_call_check"
             THEN broadcastTargets(people)
             ELSE senderTargets(people, msg.from)
         r == createAll([ jobs |-> jobs, jobStats |-> jobStats,
                          tasks |-> tasks, chats |-> chats,
                          wrote |-> FALSE, threw |-> FALSE ],
                        schedules, 1, c, m, slackTargets, now, enq)
     IN /\ jobs' = r.jobs
        /\ jobStats' = r.jobStats
        /\ tasks' = r.tasks
        /\ chats' = r.chats
        /\ last' = [ op |-> "handleFollowupTriggers", msg |-> msg, chat |-> c,
                     messageId |-> m, sentAt |-> sentAt, baseType |-> baseType,
                     schedules |-> schedules, threw |-> r.threw ]
  /\ UNCHANGED << ingest, people, CACHE, deliveries, webhookUrl, nPhaseCalls, procs >>


\* ---------------------------------------- resolveSlackUserIdByTelegramId
\* links.find(pred)?.userId, given the links that satisfy pred: the user of
\* the first of them, or "undefined".
findUserId(hits) == IF hits = << >> THEN "undefined" ELSE hits[1].userId

\* The value computed on a cache miss.  queryOk = FALSE is the Firestore query
\* throwing (the catch block); teamId = "" is a call without opts.teamId.
resolveUncached(dir, tgUserId, teamId, queryOk) ==
  IF ~queryOk THEN "null"
  ELSE
    LET doc == personByTelegramId(dir, tgUserId)
        links == IF doc.exists THEN doc.slack ELSE << >>
        matched ==
          findUserId(SelectSeq(links,
                       LAMBDA l : l.teamId = teamId /\ l.userId # ""))
        enabled ==
          findUserId(SelectSeq(links, LAMBDA l : l.enabled /\ l.userId # ""))
    IN IF links = << >> THEN "null"
       ELSE IF teamId # "" /\ matched # "undefined" THEN matched
       ELSE IF enabled # "undefined" THEN enabled
       ELSE links[1].userId

\* One whole call: the empty id fails fast, a cached key answers from CACHE,
\* anything else is computed and cached.
ResolveSlackUserIdByTelegramId(tgUserId, teamId, queryOk) ==
  /\ LET cacheKey == << tgUserId, teamId >>
         hit == tgUserId # "" /\ \E e \in CACHE : e.key = cacheKey
         result == IF tgUserId = "" THEN "null"
                   ELSE IF hit THEN (CHOOSE e \in CACHE : e.key = cacheKey).value
                   ELSE resolveUncached(people, tgUserId, teamId, queryOk)
     IN /\ CACHE' = IF tgUserId = "" \/ hit THEN CACHE
                    ELSE CACHE \cup { [key |-> cacheKey, value |-> result] }
        /\ last' = [ op |-> "resolveSlackUserIdByTelegramId",
                     tgUserId |-> tgUserId, teamId |-> teamId, hit |-> hit,
                     queryOk |-> queryOk, result |-> result ]
  /\ UNCHANGED << jobs, deliveries, chats, tasks, webhookUrl, jobStats,
                  nCreates, nPhaseCalls, procs, people, ingest >>


\* --------------------------------------------------- POST /tasks/notifications
\* attempt = Number(X-Cloud-Tasks-TaskRetryCount) + 1
AttemptOf(t) == t.retryCount + 1

\* resp.ok
RespOk(respStatus) == respStatus >= 200 /\ respStatus <= 299

\* A classification that forgets HTTP 429.
isRetryableNo429(respStatus) == respStatus >= 500 /\ respStatus <= 599

isRetryable(respStatus) ==
  respStatus = 429 \/ (respStatus >= 500 /\ respStatus <= 599)

\* Header and payload checks without the caller test.
RequestCheckNoCallerTest(req) ==
  IF ~req.json THEN "invalid content-type"
  ELSE IF ~req.hasJobId THEN "jobId is required"
  ELSE "pass"

\* The header and payload checks, in order.
RequestCheck(req) ==
  IF ~req.fromCloudTasks THEN "forbidden"
  ELSE IF ~req.json THEN "invalid content-type"
  ELSE IF ~req.hasJobId THEN "jobId is required"
  ELSE "pass"

\* The status answered when a check fails.
RequestStatus(chk) == IF chk = "forbidden" THEN 403 ELSE 400

\* A retry requested for a job that is gone.
NotFoundAnswerRetry == [status |-> 500, branch |-> "job_not_found"]

\* The answer when the job document does not exist.
NotFoundAnswer == [status |-> 200, branch |-> "job_not_found"]

\* Guards without the channel and targets test.
GuardNoTargetsTest(job, attempt, url) ==
  IF attempt > MAX_ATTEMPTS THEN "max_attempts_reached"
  ELSE IF job.sentOnce THEN "already_sentOnce"
  ELSE IF ~url THEN "webhook_url_missing"
  ELSE "send"

\* Guards with the re-send guard tested before the attempt ceiling.
GuardSentOnceFirst(job, attempt, url) ==
  IF job.sentOnce THEN "already_sentOnce"
  ELSE IF attempt > MAX_ATTEMPTS THEN "max_attempts_reached"
  ELSE IF job.channel # "slack" \/ Len(job.targets) = 0
    THEN "invalid_channel_or_targets"
  ELSE IF ~url THEN "webhook_url_missing"
  ELSE "send"

\* Guards with the attempt ceiling off by one.
GuardOffByOne(job, attempt, url) ==
  IF attempt > MAX_ATTEMPTS + 1 THEN "max_attempts_reached"
  ELSE IF job.channel # "slack" \/ Len(job.targets) = 0
    THEN "invalid_channel_or_targets"
  ELSE IF job.sentOnce THEN "already_sentOnce"
  ELSE IF ~url THEN "webhook_url_missing"
  ELSE "send"

\* The guards evaluated on the job read at the top of the handler, in order.
Guard(job, attempt, url) ==
  IF attempt > MAX_ATTEMPTS THEN "max_attempts_reached"
  ELSE IF job.channel # "slack" \/ Len(job.targets) = 0
    THEN "invalid_channel_or_targets"
  ELSE IF job.sentOnce THEN "already_sentOnce"
  ELSE IF ~url THEN "webhook_url_missing"
  ELSE "send"

\* A record that carries the queue's 0-based retry count.
DeliveryRetryCount(job, jobId, status, attempt, errorMessage, responseCode) ==
  [ jobId |-> jobId, type |-> job.type, channel |-> job.channel,
    targets |-> job.targets, status |-> status, attempt |-> attempt - 1,
    errorMessage |-> errorMessage, responseCode |-> responseCode,
    source |-> job.source, deliveryId |-> "self" ]


\* A notificationDeliveries document as the handler leaves it (timing fields
\* left out): the fields passed to add(), and deliveryId set to the document's
\* own id by the update that follows.
Delivery(job, jobId, status, attempt, errorMessage, responseCode) ==
  [ jobId |-> jobId, type |-> job.type, channel |-> job.channel,
    targets |-> job.targets, status |-> status, attempt |-> attempt,
    errorMessage |-> errorMessage, responseCode |-> responseCode,
    source |-> job.source, deliveryId |-> "self" ]

\* A document added as pending, its status left to the update.
AddedDeliveryPending(d) == [d EXCEPT !.deliveryId = "unset", !.status = "pending"]

\* The document between add() and deliveryRef.update({deliveryId}).
AddedDelivery(d) == [d EXCEPT !.deliveryId = "unset"]

\* The branch the handler takes for a job it found: a guard's reason code, or
\* the classification of the send's outcome.
Branch(job, attempt, url, out) ==
  LET g == Guard(job, attempt, url) IN
  IF g # "send" THEN g
  ELSE IF out.kind = "throw" THEN "slack_webhook_exception"
  ELSE IF RespOk(out.status) THEN "ok"
  ELSE IF isRetryable(out.status) THEN "slack_webhook_retryable"
  ELSE "non_retryable_slack_error"

\* Branches in which fetch(webhookUrl) is called.
BranchSends(b) ==
  b \in { "slack_webhook_exception", "ok", "slack_webhook_retryable",
          "non_retryable_slack_error" }

\* Marking only what was delivered.
BranchMarksOnlyOk(b) == b = "ok"

\* Marking after every send, a thrown fetch included.
BranchMarksEverySend(b) == BranchSends(b)

\* Branches in which jobRef.update({sentOnce, lastSentAt}) is executed.
BranchMarks(b) ==
  b \in { "ok", "slack_webhook_retryable", "non_retryable_slack_error" }

\* A delete placed before the retryable test.
BranchDeletesBeforeRetryTest(b) ==
  b \in { "max_attempts_reached", "invalid_channel_or_targets",
          "already_sentOnce", "ok", "non_retryable_slack_error",
          "slack_webhook_retryable" }

\* Branches in which jobRef.delete() is executed.
BranchDeletes(b) ==
  b \in { "max_attempts_reached", "invalid_channel_or_targets",
          "already_sentOnce", "ok", "non_retryable_slack_error" }

\* The HTTP status answered in each branch.
BranchStatus(b) ==
  IF b \in { "webhook_url_missing", "slack_webhook_retryable",
             "slack_webhook_exception" }
    THEN 500 ELSE 200

\* The delivery document added in each branch (respStatus is the status of the
\* response received, 0 when fetch threw).
BranchLog(b, job, jobId, attempt, respStatus) ==
  CASE b = "max_attempts_reached" ->
         Delivery(job, jobId, "failure", attempt, "max_attempts_reached(5)", 200)
    [] b = "invalid_channel_or_targets" ->
         Delivery(job, jobId, "failure", attempt, "invalid_channel_or_targets", 200)
    [] b = "already_sentOnce" ->
         Delivery(job, jobId, "success", attempt, "", 200)
    [] b = "webhook_url_missing" ->
         Delivery(job, jobId, "failure", attempt, "SLACK_WEBHOOK_URL is not set", 500)
    [] b = "slack_webhook_exception" ->
         Delivery(job, jobId, "failure", attempt, "exception", respStatus)
    [] b = "ok" ->
         Delivery(job, jobId, "success", attempt, "", respStatus)
    [] OTHER ->
         Delivery(job, jobId, "failure", attempt, "http_error", respStatus)

\* The request the queue sends for task t.
RequestOf(t) ==
  [ fromCloudTasks |-> TRUE, json |-> TRUE, hasJobId |-> TRUE,
    jobId |-> t.jobId, retryCount |-> t.retryCount ]

\* The queue after a task's callback answered: a 200 ends the task, any other
\* status makes the queue retry it with the retry count raised by one.
QueueAfter(q, t, status) ==
  IF ~BagIn(t, q) THEN q
  ELSE IF status = 200 THEN q (-) SetToBag({t})
  ELSE (q (-) SetToBag({t})) (+) SetToBag({[t EXCEPT !.retryCount = @ + 1]})

\* An update that also moves the job's status on.
MarkSentAndStatus(job, now) ==
  [job EXCEPT !.sentOnce = TRUE, !.lastSentAt = now, !.status = "sent"]

\* jobRef.update({sentOnce: true, lastSentAt: now})
MarkSent(job, now) == [job EXCEPT !.sentOnce = TRUE, !.lastSentAt = now]

\* The channel's and the handler's counts for a job after one more callback.
StatsAfter(st, sent, out) ==
  [ calls |-> st.calls + 1,
    sends |-> st.sends + (IF sent THEN 1 ELSE 0),
    accepted |-> st.accepted +
       (IF sent /\ out.kind = "response" /\ RespOk(out.status) THEN 1 ELSE 0) ]

\* The handler from the job lookup on, for a request that passed the checks
\* with the jobId and the retry count of t.
HandleJob(t, out, now) ==
  /\ LET jobId == t.jobId
         attempt == AttemptOf(t)
         job == jobs[jobId]
         b == Branch(job, attempt, webhookUrl, out)
     IN IF ~job.exists
          THEN /\ tasks' = QueueAfter(tasks, t, NotFoundAnswer.status)
               /\ last' = [NoCall EXCEPT !.op = "tasksNotifications",
                             !.id = jobId, !.status = NotFoundAnswer.status,
                             !.branch = NotFoundAnswer.branch,
                             !.attempt = attempt, !.req = RequestOf(t)]
               /\ UNCHANGED << jobs, deliveries, jobStats >>
          ELSE /\ jobs' = [jobs EXCEPT ![jobId] =
                             IF BranchDeletes(b) THEN NoJob
                             ELSE IF BranchMarks(b) THEN MarkSent(job, now)
                             ELSE job]
               /\ deliveries' = deliveries (+)
                    SetToBag({BranchLog(b, job, jobId, attempt,
                                        IF BranchSends(b) THEN out.status ELSE 0)})
               /\ tasks' = QueueAfter(tasks, t, BranchStatus(b))
               /\ jobStats' = [jobStats EXCEPT ![jobId] =
                                 StatsAfter(@, BranchSends(b), out)]
               /\ last' = [NoCall EXCEPT !.op = "tasksNotifications",
                             !.id = jobId, !.wrote = TRUE,
                             !.status = BranchStatus(b), !.branch = b,
                             !.attempt = attempt, !.sent = BranchSends(b),
                             !.marked = BranchMarks(b),
                             !.outcome = IF BranchSends(b) THEN out.status ELSE 0,
                             !.req = RequestOf(t)]
  /\ UNCHANGED << ingest, people, CACHE, chats, webhookUrl, nCreates, nPhaseCalls, procs >>

\* The queue invokes the callback of task t; the whole handler runs.
TasksNotifications(t, out, now) ==
  /\ BagIn(t, tasks)
  /\ HandleJob(t, out, now)

\* Any request to the endpoint, from the queue or from another client: the
\* checks, then the handler.
HandleRequest(req, out, now) ==
  /\ BagCardinality(deliveries) < MaxDeliveries
  /\ LET chk == RequestCheck(req) IN
     IF chk # "pass"
       THEN /\ last' = [NoCall EXCEPT !.op = "tasksNotifications",
                          !.status = RequestStatus(chk), !.branch = chk,
                          !.attempt = req.retryCount + 1, !.req = req]
            /\ UNCHANGED << ingest, people, CACHE, jobs, deliveries, chats, tasks, webhookUrl, jobStats,
                            nCreates, nPhaseCalls, procs >>
       ELSE HandleJob([jobId |-> req.jobId, retryCount |-> req.retryCount],
                      out, now)

\* ------------------------------- the handler with store writes that reject
\* The store operation that rejects during a request ("none": all succeed).
StoreFaults ==
  { "none", "jobRef.update", "deliveries.add", "deliveryRef.update",
    "jobRef.delete" }

\* What the caller sees when the async handler's promise rejects with nothing
\* sent: no response at all (0), or the framework's error response (500).
UnhandledAnswers == { 0, 500 }

\* add() then deliveryRef.update({deliveryId}) for document d: the documents
\* left in the log, and whether both writes succeeded.
LogWrites(d, fault) ==
  IF fault = "deliveries.add" THEN [docs |-> << >>, ok |-> FALSE]
  ELSE IF fault = "deliveryRef.update"
    THEN [docs |-> << AddedDelivery(d) >>, ok |-> FALSE]
  ELSE [docs |-> << d >>, ok |-> TRUE]

\* The catch block: the failure record, then 500; a rejected write inside it
\* leaves the handler's promise rejected.
CatchBlock(job, jobId, attempt, respStatus, fault) ==
  LET w == LogWrites(Delivery(job, jobId, "failure", attempt, "exception",
                              respStatus), fault)
  IN [docs |-> w.docs, handled |-> w.ok, status |-> 500]

\* The handler for a job it found, statement by statement, with the writes of
\* one kind rejecting: the job document and the log it leaves, whether it sent
\* a response (no when a rejection escapes), and the status it sent or was
\* about to send.  The guard branches run
\* outside the try block; the send and everything after it run inside.
FaultyRun(job, jobId, attempt, url, out, now, fault) ==
  LET b == Branch(job, attempt, url, out)
      respStatus == IF BranchSends(b) THEN out.status ELSE 0
      w == LogWrites(BranchLog(b, job, jobId, attempt, respStatus), fault)
      marked == MarkSent(job, now)
  IN IF ~BranchSends(b)
       THEN \* add, update, [delete,] respond: no try around them
         IF ~w.ok
           THEN [ job |-> job, docs |-> w.docs, handled |-> FALSE,
                  status |-> BranchStatus(b) ]
         ELSE IF BranchDeletes(b) /\ fault = "jobRef.delete"
           THEN [ job |-> job, docs |-> w.docs, handled |-> FALSE,
                  status |-> BranchStatus(b) ]
         ELSE [ job |-> IF BranchDeletes(b) THEN NoJob ELSE job,
                docs |-> w.docs, handled |-> TRUE, status |-> BranchStatus(b) ]
     ELSE IF out.kind = "throw"
       THEN \* fetch threw: straight to the catch block
         LET c == CatchBlock(job, jobId, attempt, 0, fault)
         IN [ job |-> job, docs |-> c.docs, handled |-> c.handled,
                 status |-> c.status ]
     ELSE IF fault = "jobRef.update"
       THEN LET c == CatchBlock(job, jobId, attempt, respStatus, fault)
            IN [ job |-> job, docs |-> c.docs, handled |-> c.handled,
                 status |-> c.status ]
     ELSE IF ~w.ok
       THEN LET c == CatchBlock(job, jobId, attempt, respStatus, fault)
            IN [ job |-> marked, docs |-> w.docs \o c.docs,
                 handled |-> c.handled, status |-> c.status ]
     ELSE IF BranchDeletes(b) /\ fault = "jobRef.delete"
       THEN LET c == CatchBlock(job, jobId, attempt, respStatus, fault)
            IN [ job |-> marked, docs |-> w.docs \o c.docs,
                 handled |-> c.handled, status |-> c.status ]
     ELSE [ job |-> IF BranchDeletes(b) THEN NoJob ELSE marked,
            docs |-> w.docs, handled |-> TRUE, status |-> BranchStatus(b) ]

\* The bag of the documents of a sequence.
RECURSIVE SeqToBag(_)
SeqToBag(s) ==
  IF s = << >> THEN EmptyBag ELSE SetToBag({ Head(s) }) (+) SeqToBag(Tail(s))

\* The queue invokes the callback of task t while the writes of kind fault
\* reject; an escaped rejection reaches the caller as unhandledAs.  The first
\* MaxFaultyCalls callbacks of a task are followed.
TasksNotificationsFaulty(t, out, now, fault, unhandledAs) ==
  /\ BagIn(t, tasks)
  /\ t.retryCount < MaxFaultyCalls
  /\ jobs[t.jobId].exists
  /\ LET jobId == t.jobId
         attempt == AttemptOf(t)
         job == jobs[jobId]
         b == Branch(job, attempt, webhookUrl, out)
         r == FaultyRun(job, jobId, attempt, webhookUrl, out, now, fault)
         status == IF r.handled THEN r.status ELSE unhandledAs
     IN /\ jobs' = [jobs EXCEPT ![jobId] = r.job]
        /\ deliveries' = deliveries (+) SeqToBag(r.docs)
        /\ tasks' = QueueAfter(tasks, t, status)
        /\ jobStats' = [jobStats EXCEPT ![jobId] =
                          StatsAfter(@, BranchSends(b), out)]
        /\ last' = [ op |-> "tasksNotifications", id |-> jobId, branch |-> b,
                     attempt |-> attempt, fault |-> fault,
                     primary |-> BranchStatus(b),
                     handled |-> r.handled, status |-> status ]
  /\ UNCHANGED << ingest, people, CACHE, chats, webhookUrl, nCreates, nPhaseCalls, procs >>


\* ------------------------------------------------- requests one at a time
PhaseCandidates == [value : ChatPhase, ts : PhaseTimes, messageId : Msgs]

\* Notification types of the jobs whose delivery is followed (one base type
\* and one reminder type; the handler reads job.type only to copy it).
DeliveryTypes == { "follow_up_proposal_1st", "follow_up_proposal_2nd" }

CreateAny ==
  \E notifType \in NotificationType, scheduledAt \in Times, c \in Chats,
     m \in Msgs, slackTargets \in TargetLists, now \in Times,
     enqueueOk \in BOOLEAN :
    CreateJobAndTask(notifType, scheduledAt, c, m, slackTargets, now, enqueueOk)

CreateForDelivery ==
  \E notifType \in DeliveryTypes, scheduledAt \in Times, c \in Chats,
     m \in Msgs, slackTargets \in TargetLists, now \in Times,
     enqueueOk \in BOOLEAN :
    CreateJobAndTask(notifType, scheduledAt, c, m, slackTargets, now, enqueueOk)

AdvancePhase ==
  \E c \in Chats, next \in PhaseCandidates : UpsertChatPhaseIfAdvanced(c, next)

ChatUpsert ==
  \E c \in Chats, m \in Msgs, sentAt \in Times : WebhookChatUpsert(c, m, sentAt)

QueueCallback ==
  \E t \in BagToSet(tasks), out \in Outcomes, now \in Times :
    TasksNotifications(t, out, now)

\* Candidates of direct calls, with more than one message id.
PhaseInputs == [value : ChatPhase, ts : PhaseTimes, messageId : PhaseMsgs]

\* upsertChatPhaseIfAdvanced alone, called again and again on one chat store.
NextPhase ==
  \E c \in Chats, next \in PhaseInputs : UpsertChatPhaseIfAdvanced(c, next)

SpecPhase == Init /\ [][NextPhase]_vars

\* Job ids a request names: those of the jobs a trigger can create here, and
\* one that no job has.
RequestJobIds ==
  { hashId(t, c, m) : t \in DeliveryTypes, c \in Chats, m \in Msgs } \cup { 0 }

\* Requests a client can send to the endpoint.
Requests ==
  [ fromCloudTasks : BOOLEAN, json : BOOLEAN, hasJobId : BOOLEAN,
    jobId : RequestJobIds, retryCount : 0..MaxRetryCount ]

\* The fetch outcome and the clock matter only to a request that passes the
\* checks.
AnyRequest ==
  \E req \in Requests :
    IF RequestCheck(req) # "pass"
      THEN HandleRequest(req, NoOut, 0)
      ELSE \E out \in Outcomes, now \in Times : HandleRequest(req, out, now)

\* Job creation and arbitrary requests to the endpoint, one at a time.
NextRequest == CreateForDelivery \/ AnyRequest

SpecRequest == Init /\ [][NextRequest]_vars

\* Job creation and delivery callbacks, one request at a time.
Next == CreateForDelivery \/ QueueCallback

Spec == Init /\ [][Next]_vars

\* Job creation and phase changes, one request at a time.
NextCreate == CreateAny \/ AdvancePhase \/ ChatUpsert

SpecCreate == Init /\ [][NextCreate]_vars

\* Every registered task is dispatched, and dispatched again after a 500.
HasTask(j) == \E t \in BagToSet(tasks) : t.jobId = j

CallbackOf(j) ==
  \E t \in BagToSet(tasks), out \in Outcomes, now \in Times :
    t.jobId = j /\ TasksNotifications(t, out, now)

SpecFair == Spec /\ \A j \in JobIds : WF_vars(CallbackOf(j))

\* ------------------------------------------------ requests that overlap
\* Each request is a process; every await on the store, the channel or the
\* queue is a step of its own, so other requests run between two of them.
SetProc(p, r) == [procs EXCEPT ![p] = r]

TaskOf(pr) == [jobId |-> pr.jobId, retryCount |-> pr.attempt - 1]

\* jobRef.get() and the guards on the job read.
CbRead(p, t) ==
  /\ procs[p].pc = "idle"
  /\ BagIn(t, tasks)
  /\ LET jobId == t.jobId
         attempt == AttemptOf(t)
         job == jobs[jobId]
         g == Guard(job, attempt, webhookUrl)
     IN IF ~job.exists
          THEN /\ tasks' = QueueAfter(tasks, t, 200)
               /\ UNCHANGED << procs, jobStats >>
          ELSE /\ procs' = SetProc(p, [IdleProc EXCEPT
                              !.pc = IF g = "send" THEN "fetch" ELSE "log",
                              !.jobId = jobId, !.attempt = attempt,
                              !.job = job, !.branch = g])
               /\ jobStats' = [jobStats EXCEPT ![jobId].calls = @ + 1]
               /\ UNCHANGED tasks
  /\ UNCHANGED << ingest, people, CACHE, jobs, deliveries, chats, webhookUrl, last, nCreates, nPhaseCalls >>

\* fetch(webhookUrl): the channel receives the message and answers, or the
\* transport throws.
CbFetch(p, out) ==
  /\ procs[p].pc = "fetch"
  /\ procs' = SetProc(p, [procs[p] EXCEPT
                 !.pc = IF out.kind = "throw" THEN "log" ELSE "mark",
                 !.out = out,
                 !.branch = IF out.kind = "throw" THEN "slack_webhook_exception"
                            ELSE @])
  /\ jobStats' = [jobStats EXCEPT ![procs[p].jobId] =
        [ @ EXCEPT !.sends = @ + 1,
                   !.accepted = @ + (IF out.kind = "response" /\ RespOk(out.status)
                                       THEN 1 ELSE 0) ]]
  /\ UNCHANGED << ingest, people, CACHE, jobs, deliveries, chats, tasks, webhookUrl, last, nCreates,
                  nPhaseCalls >>

\* jobRef.update({sentOnce, lastSentAt}); update() of a document that is gone
\* rejects, which lands in the catch block.
CbMark(p, now) ==
  /\ procs[p].pc = "mark"
  /\ LET pr == procs[p] IN
     IF jobs[pr.jobId].exists
       THEN /\ jobs' = [jobs EXCEPT ![pr.jobId] = MarkSent(@, now)]
            /\ procs' = SetProc(p, [pr EXCEPT !.pc = "log",
                           !.branch = Branch(pr.job, pr.attempt, webhookUrl, pr.out)])
       ELSE /\ procs' = SetProc(p, [pr EXCEPT !.pc = "log",
                           !.branch = "slack_webhook_exception"])
            /\ UNCHANGED jobs
  /\ UNCHANGED << ingest, people, CACHE, deliveries, chats, tasks, webhookUrl, jobStats, last, nCreates,
                  nPhaseCalls >>

\* notificationDeliveries.add(...)
CbLog(p) ==
  /\ procs[p].pc = "log"
  /\ LET pr == procs[p] IN
     /\ deliveries' = deliveries (+)
          SetToBag({AddedDelivery(BranchLog(pr.branch, pr.job, pr.jobId,
                                            pr.attempt, pr.out.status))})
     /\ procs' = SetProc(p, [pr EXCEPT !.pc = "log_id"])
  /\ UNCHANGED << ingest, people, CACHE, jobs, chats, tasks, webhookUrl, jobStats, last, nCreates,
                  nPhaseCalls >>

\* deliveryRef.update({deliveryId: deliveryRef.id}), then the answer when the
\* branch keeps the job.
CbLogId(p) ==
  /\ procs[p].pc = "log_id"
  /\ LET pr == procs[p]
         d == BranchLog(pr.branch, pr.job, pr.jobId, pr.attempt, pr.out.status)
     IN
     /\ deliveries' = (deliveries (-) SetToBag({AddedDelivery(d)})) (+) SetToBag({d})
     /\ IF BranchDeletes(pr.branch)
          THEN /\ procs' = SetProc(p, [pr EXCEPT !.pc = "delete"])
               /\ UNCHANGED tasks
          ELSE /\ procs' = SetProc(p, IdleProc)
               /\ tasks' = QueueAfter(tasks, TaskOf(pr), BranchStatus(pr.branch))
  /\ UNCHANGED << ingest, people, CACHE, jobs, chats, webhookUrl, jobStats, last, nCreates, nPhaseCalls >>

\* jobRef.delete(), then the 200 answer.
CbDelete(p) ==
  /\ procs[p].pc = "delete"
  /\ jobs' = [jobs EXCEPT ![procs[p].jobId] = NoJob]
  /\ tasks' = QueueAfter(tasks, TaskOf(procs[p]), 200)
  /\ procs' = SetProc(p, IdleProc)
  /\ UNCHANGED << ingest, people, CACHE, deliveries, chats, webhookUrl, jobStats, last, nCreates,
                  nPhaseCalls >>

\* upsertChatPhaseIfAdvanced: ref.get()
PhRead(p, c, next) ==
  /\ procs[p].pc = "idle"
  /\ nPhaseCalls < MaxPhaseCalls
  /\ nPhaseCalls' = nPhaseCalls + 1
  /\ procs' = SetProc(p, [IdleProc EXCEPT !.pc = "phase_write", !.chat = c,
                            !.next = next, !.snap = chats[c]])
  /\ UNCHANGED << ingest, people, CACHE, jobs, deliveries, chats, tasks, webhookUrl, jobStats, last,
                  nCreates >>

\* upsertChatPhaseIfAdvanced: the comparison on the snapshot and the write.
PhWrite(p) ==
  /\ procs[p].pc = "phase_write"
  /\ LET pr == procs[p] IN
     chats' = PhaseWritten(chats, pr.chat, PhaseDecision(pr.snap, pr.next), pr.next)
  /\ procs' = SetProc(p, IdleProc)
  /\ UNCHANGED << ingest, people, CACHE, jobs, deliveries, tasks, webhookUrl, jobStats, last, nCreates,
                  nPhaseCalls >>

\* createJobAndTask, one await per step.  The job document is built from the
\* arguments; two requests in flight for one message carry the same message,
\* hence the same schedule and the same resolved targets.
InCreate(pr) == pr.pc \in { "cr_set", "cr_enqueue", "cr_phase" }

SameTrigger(pr, doc) ==
  (InCreate(pr) /\ pr.job.type = doc.type /\ pr.job.payload = doc.payload)
    => (pr.job.scheduledAt = doc.scheduledAt /\ pr.job.targets = doc.targets)

\* jobRef.get() and the early return when the job exists.
CrRead(p, notifType, scheduledAt, c, m, slackTargets, now) ==
  /\ procs[p].pc = "idle"
  /\ nCreates < MaxCreates
  /\ nCreates' = nCreates + 1
  /\ LET jobId == hashId(notifType, c, m)
         doc == NewJobDoc(jobId, notifType, scheduledAt, c, m, slackTargets, now)
     IN /\ \A q \in Procs : SameTrigger(procs[q], doc)
        /\ procs' = IF JobExistsSkip(jobs[jobId]) THEN procs
                     ELSE SetProc(p, [IdleProc EXCEPT
                            !.pc = "cr_set", !.jobId = jobId, !.job = doc,
                            !.chat = c,
                            !.next = [value |-> PHASE_BY_NOTIF(notifType),
                                      ts |-> now, messageId |-> m]])
  /\ UNCHANGED << ingest, people, CACHE, jobs, deliveries, chats, tasks, webhookUrl, jobStats, last,
                  nPhaseCalls >>

\* jobRef.set(jobDoc, {merge: false})
CrSet(p) ==
  /\ procs[p].pc = "cr_set"
  /\ jobs' = [jobs EXCEPT ![procs[p].jobId] = procs[p].job]
  /\ jobStats' = [jobStats EXCEPT ![procs[p].jobId] = NoStats]
  /\ procs' = SetProc(p, [procs[p] EXCEPT !.pc = "cr_enqueue"])
  /\ UNCHANGED << ingest, people, CACHE, deliveries, chats, tasks, webhookUrl, last, nCreates,
                  nPhaseCalls >>

\* enqueueHttpEtaTask: the task is registered, or createTask rejects and the
\* call throws.
CrEnqueue(p, enqueueOk) ==
  /\ procs[p].pc = "cr_enqueue"
  /\ tasks' = IF enqueueOk THEN tasks (+) SetToBag({NewTask(procs[p].jobId)})
               ELSE tasks
  /\ procs' = SetProc(p, IF enqueueOk /\ procs[p].next.value # "none"
                           THEN [procs[p] EXCEPT !.pc = "cr_phase"]
                           ELSE IdleProc)
  /\ UNCHANGED << ingest, people, CACHE, jobs, deliveries, chats, webhookUrl, jobStats, last, nCreates,
                  nPhaseCalls >>

\* upsertChatPhaseIfAdvanced called from createJobAndTask: ref.get()
CrPhaseRead(p) ==
  /\ procs[p].pc = "cr_phase"
  /\ procs' = SetProc(p, [procs[p] EXCEPT !.pc = "phase_write",
                                           !.snap = chats[procs[p].chat]])
  /\ UNCHANGED << ingest, people, CACHE, jobs, deliveries, chats, tasks, webhookUrl, jobStats, last,
                  nCreates, nPhaseCalls >>

NextCreateConc ==
  \/ \E p \in Procs, notifType \in DeliveryTypes, scheduledAt \in Times,
        c \in Chats, m \in Msgs, slackTargets \in TargetLists, now \in Times :
       CrRead(p, notifType, scheduledAt, c, m, slackTargets, now)
  \/ \E p \in Procs : CrSet(p)
  \/ \E p \in Procs, enqueueOk \in BOOLEAN : CrEnqueue(p, enqueueOk)
  \/ \E p \in Procs : CrPhaseRead(p)
  \/ \E p \in Procs : PhWrite(p)

SpecCreateConc == Init /\ [][NextCreateConc]_vars

\* A request of the webhook that is past its chat read.
InWebhook(pr) == pr.pc \in { "wh_write", "wh_followup" }

\* POST /webhook/telegram for a message m of chat c, one await per step.  An
\* update whose id was seen is skipped, so requests in flight carry different
\* messages.
\* chatRef.get()
WhRead(p, c, m, sentAt) ==
  /\ procs[p].pc = "idle"
  /\ \A q \in Procs :
       (InWebhook(procs[q]) \/ procs[q].pc = "phase_write")
         => procs[q].next.messageId # m
  /\ procs' = SetProc(p, [IdleProc EXCEPT !.pc = "wh_write", !.chat = c,
                            !.snap = chats[c],
                            !.next = [value |-> "none", ts |-> sentAt,
                                      messageId |-> m]])
  /\ UNCHANGED << ingest, people, CACHE, jobs, deliveries, chats, tasks, webhookUrl, jobStats, last,
                  nCreates, nPhaseCalls >>

\* chatRef.set(buildNewChatRoomDoc(...)) when the read found no document (the
\* whole document is replaced), else chatRef.set(partial update, {merge: true}),
\* which carries no phase field.
WhWrite(p) ==
  /\ procs[p].pc = "wh_write"
  /\ LET pr == procs[p] IN
     chats' = IF ~pr.snap.exists
                THEN [chats EXCEPT ![pr.chat] =
                        buildNewChatRoomDoc(pr.next.messageId, pr.next.ts)]
              ELSE chats
  /\ procs' = SetProc(p, [procs[p] EXCEPT !.pc = "wh_followup"])
  /\ UNCHANGED << ingest, people, CACHE, jobs, deliveries, tasks, webhookUrl, jobStats, last, nCreates,
                  nPhaseCalls >>

\* handleFollowupTriggers: the message schedules no job, or a job whose type
\* maps to no phase, and the request ends; or createJobAndTask reaches
\* upsertChatPhaseIfAdvanced with the mapped phase and reads the chat.
WhFollowup(p, mapped) ==
  /\ procs[p].pc = "wh_followup"
  /\ procs' = SetProc(p, IF mapped = "none" THEN IdleProc
                           ELSE [procs[p] EXCEPT
                                   !.pc = "phase_write",
                                   !.snap = chats[procs[p].chat],
                                   !.next.value = mapped])
  /\ UNCHANGED << ingest, people, CACHE, jobs, deliveries, chats, tasks, webhookUrl, jobStats, last,
                  nCreates, nPhaseCalls >>

NextChatConc ==
  \/ \E p \in Procs, c \in Chats, m \in PhaseMsgs, sentAt \in Times :
       WhRead(p, c, m, sentAt)
  \/ \E p \in Procs : WhWrite(p)
  \/ \E p \in Procs, mapped \in ChatPhase \cup {"none"} : WhFollowup(p, mapped)
  \/ \E p \in Procs : PhWrite(p)

SpecChatConc == Init /\ [][NextChatConc]_vars

\* One job is scheduled; the queue may dispatch its task to two requests.
CreateOnce == nCreates = 0 /\ CreateForDelivery

NextConc ==
  \/ CreateOnce
  \/ \E p \in Procs, t \in BagToSet(tasks) : CbRead(p, t)
  \/ \E p \in Procs, out \in Outcomes : CbFetch(p, out)
  \/ \E p \in Procs, now \in Times : CbMark(p, now)
  \/ \E p \in Procs : CbLog(p)
  \/ \E p \in Procs : CbLogId(p)
  \/ \E p \in Procs : CbDelete(p)

NextPhaseConc ==
  \/ \E p \in Procs, c \in Chats, next \in PhaseCandidates : PhRead(p, c, next)
  \/ \E p \in Procs : PhWrite(p)

SpecPhaseConc == Init /\ [][NextPhaseConc]_vars

SpecConc == Init /\ [][NextConc]_vars

\* ------------------------------------------------------------- properties
Rank(doc) == IF doc.exists THEN PHASE_PRIORITY(doc.phase.value) ELSE 0

\* A step of Spec in which the queue's callback ran.
CallbackStep == last'.op = "tasksNotifications" /\ tasks' # tasks

\* C1: a createJobAndTask call that directly follows a call for the same
\* (type, chatId, messageId) changes neither the job store nor the queue, and
\* the job under the derived jobId is there, pending.
C1_SecondCreateIsNoOp ==
  [][ ( /\ nCreates' = nCreates + 1
        /\ last.op = "createJobAndTask"
        /\ last'.id = last.id )
      => /\ jobs' = jobs
         /\ tasks' = tasks
         /\ jobs'[last.id].exists
         /\ jobs'[last.id].jobId = last.id
         /\ jobs'[last.id].status = "pending" ]_vars

C1_Witness ==
  /\ last.op = "createJobAndTask"
  /\ last.again
  /\ jobs[last.id].exists
  /\ BagCardinality(tasks) = 1

\* C2: over requests that run one at a time, the rank of a chat's stored
\* phase never decreases from one state to the next.
C2_RankNeverDecreases ==
  [][ \A c \in Chats : Rank(chats'[c]) >= Rank(chats[c]) ]_vars

C2_Witness ==
  /\ last.op = "upsertChatPhaseIfAdvanced"
  /\ ~last.wrote
  /\ PHASE_PRIORITY(last.value) < Rank(chats[last.id])

\* C4: a callback with attempt > 5 that finds its job adds the
\* retries-exhausted failure record, deletes the job, answers 200 and sends
\* nothing.
C4_RetriesExhausted ==
  [][ ( /\ CallbackStep
        /\ last'.attempt > MAX_ATTEMPTS
        /\ jobs[last'.id].exists )
      => /\ last'.status = 200
         /\ ~jobs'[last'.id].exists
         /\ ~last'.sent
         /\ jobStats'[last'.id].sends = jobStats[last'.id].sends
         /\ deliveries' = deliveries (+)
              SetToBag({Delivery(jobs[last'.id], last'.id, "failure",
                                 last'.attempt, "max_attempts_reached(5)", 200)})
    ]_vars

C4_Witness ==
  /\ last.op = "tasksNotifications"
  /\ last.attempt = MAX_ATTEMPTS + 1
  /\ last.branch = "max_attempts_reached"

\* C5: after a callback that found its job, a 200 answer means the job is
\* gone and a 500 answer means the job is still there.
C5_TerminalIffDeleted ==
  (last.op = "tasksNotifications" /\ last.branch # "job_not_found")
    => /\ last.status \in {200, 500}
       /\ (last.status = 200 => ~jobs[last.id].exists)
       /\ (last.status = 500 => jobs[last.id].exists)

C5_Witness ==
  /\ last.op = "tasksNotifications"
  /\ last.status = 500
  /\ last.branch = "slack_webhook_retryable"
  /\ jobs[last.id].exists

\* The record a callback adds for a job whose re-send guard is already set.
GuardedRecord(job, jobId, attempt) ==
  IF attempt <= MAX_ATTEMPTS
    THEN Delivery(job, jobId, "success", attempt, "", 200)
    ELSE Delivery(job, jobId, "failure", attempt, "max_attempts_reached(5)", 200)

\* C6 (amended): a send answered 429 or 5xx leaves the job with its re-send
\* guard set; nothing but a callback for that job changes it afterwards, and
\* that callback sends nothing, deletes the job and answers 200, adding a
\* success record when its attempt is at most 5 and the retries-exhausted
\* failure record when it is the 6th.
C6_RetryShortCircuits ==
  [][ /\ ( (CallbackStep /\ last'.branch = "slack_webhook_retryable")
           => /\ jobs'[last'.id].exists
              /\ jobs'[last'.id].sentOnce
              /\ last'.status = 500 )
      /\ \A j \in JobIds :
           (jobs[j].exists /\ jobs[j].sentOnce /\ jobs'[j] # jobs[j])
             => (CallbackStep /\ last'.id = j)
      /\ ( (CallbackStep /\ jobs[last'.id].exists /\ jobs[last'.id].sentOnce)
           => /\ ~last'.sent
              /\ jobStats'[last'.id].sends = jobStats[last'.id].sends
              /\ last'.status = 200
              /\ ~jobs'[last'.id].exists
              /\ deliveries' = deliveries (+)
                   SetToBag({GuardedRecord(jobs[last'.id], last'.id,
                                           last'.attempt)}) )
    ]_vars

C6_Witness ==
  /\ last.op = "tasksNotifications"
  /\ last.branch = "already_sentOnce"
  /\ last.status = 200
  /\ ~jobs[last.id].exists

\* C6 as first stated: the callback that follows a retryable failure always
\* adds a success record.
C6_Original ==
  [][ (CallbackStep /\ jobs[last'.id].exists /\ jobs[last'.id].sentOnce)
      => /\ ~last'.sent
         /\ last'.status = 200
         /\ ~jobs'[last'.id].exists
         /\ deliveries' = deliveries (+)
              SetToBag({Delivery(jobs[last'.id], last'.id, "success",
                                 last'.attempt, "", 200)})
    ]_vars

C8_Classification ==
  [][ (CallbackStep /\ last'.sent) =>
        LET id == last'.id
            st == last'.outcome
        IN IF st = 0 \/ st = 429 \/ (st >= 500 /\ st <= 599)
             THEN /\ last'.status = 500
                  /\ jobs'[id].exists
           ELSE IF st >= 200 /\ st <= 299
             THEN /\ last'.status = 200
                  /\ ~jobs'[id].exists
                  /\ deliveries' = deliveries (+)
                       SetToBag({Delivery(jobs[id], id, "success",
                                          last'.attempt, "", st)})
           ELSE /\ last'.status = 200
                /\ ~jobs'[id].exists
                /\ deliveries' = deliveries (+)
                     SetToBag({Delivery(jobs[id], id, "failure",
                                        last'.attempt, "http_error", st)})
    ]_vars

C8_Witness ==
  /\ last.op = "tasksNotifications"
  /\ last.sent
  /\ last.outcome = 429
  /\ last.status = 500
  /\ jobs[last.id].exists

\* C3: under requests that overlap, the rank of a chat's stored phase never
\* decreases from one state to the next.
C3_RankNeverDecreasesConcurrent ==
  [][ \A c \in Chats : Rank(chats'[c]) >= Rank(chats[c]) ]_vars

\* C9 (amended): a job registered with the queue is deleted in the end; the
\* callback finds a job at most 6 times and sends for it at most 5 times.
C9_BoundedRetries ==
  /\ [](\A j \in JobIds : /\ jobStats[j].calls <= MAX_ATTEMPTS + 1
                          /\ jobStats[j].sends <= MAX_ATTEMPTS)
  /\ \A j \in JobIds : (jobs[j].exists /\ HasTask(j)) ~> ~jobs[j].exists

C9_Witness ==
  \E j \in JobIds :
    /\ ~jobs[j].exists
    /\ jobStats[j].calls = MAX_ATTEMPTS + 1
    /\ jobStats[j].sends = MAX_ATTEMPTS

\* C9 as first stated: every persisted job is deleted in the end.
C9_Original ==
  /\ [](\A j \in JobIds : /\ jobStats[j].calls <= MAX_ATTEMPTS + 1
                          /\ jobStats[j].sends <= MAX_ATTEMPTS)
  /\ \A j \in JobIds : jobs[j].exists ~> ~jobs[j].exists

\* C10: the channel accepts (2xx) the message of a job at most once.
C10_AcceptedAtMostOnce ==
  \A j \in JobIds : jobStats[j].accepted <= 1

\* The fields of a job document that a creation determines.
JobFields(job) ==
  << job.jobId, job.type, job.channel, job.scheduledAt, job.targets,
     job.payload, job.source >>

\* C11: with two createJobAndTask executions for one (type, chatId, messageId)
\* interleaved, the job under the jobId has the type, channel, scheduledAt,
\* targets, payload and source that either creation writes, and a second
\* write leaves those fields as they were.
C11_ConcurrentCreateSameRecord ==
  [][ \A j \in JobIds :
        jobs'[j].exists =>
          /\ jobs'[j].jobId = j
          /\ jobs[j].exists => JobFields(jobs'[j]) = JobFields(jobs[j])
          /\ \A p \in Procs :
                (InCreate(procs'[p]) /\ procs'[p].jobId = j)
                  => JobFields(jobs'[j]) = JobFields(procs'[p].job) ]_vars

C11_Witness ==
  /\ procs[1].pc = "cr_enqueue"
  /\ procs[2].pc = "cr_enqueue"
  /\ procs[1].jobId = procs[2].jobId
  /\ jobs[procs[1].jobId].exists

\* A step that is one direct call of upsertChatPhaseIfAdvanced; the chat is
\* last'.id and the candidate last'.next.
UpsertStep ==
  last'.op = "upsertChatPhaseIfAdvanced" /\ nPhaseCalls' = nPhaseCalls + 1

\* C12: a call whose candidate has the value and the messageId of the stored
\* phase writes nothing and returns false, whatever the candidate's ts.
C12_SameValueAndMessageIsNoOp ==
  [][ ( /\ UpsertStep
        /\ chats[last'.id].exists
        /\ chats[last'.id].phase.value = last'.next.value
        /\ chats[last'.id].phase.messageId = last'.next.messageId )
      => /\ ~last'.wrote
         /\ chats' = chats ]_vars

C12_Witness ==
  /\ last.op = "upsertChatPhaseIfAdvanced"
  /\ nPhaseCalls = 2
  /\ ~last.wrote
  /\ chats[last.id].phase.value = last.next.value
  /\ chats[last.id].phase.messageId = last.next.messageId
  /\ chats[last.id].phase.ts # last.next.ts

\* C13: when a phase is stored and the candidate's rank is not higher than
\* the stored rank, the call writes nothing and returns false.
C13_NotHigherIsNoOp ==
  [][ ( /\ UpsertStep
        /\ chats[last'.id].exists
        /\ chats[last'.id].phase.value # "none"
        /\ PHASE_PRIORITY(last'.next.value)
             <= PHASE_PRIORITY(chats[last'.id].phase.value) )
      => /\ ~last'.wrote
         /\ chats' = chats ]_vars

C13_Witness ==
  /\ last.op = "upsertChatPhaseIfAdvanced"
  /\ ~last.wrote
  /\ chats[last.id].phase.value = last.next.value
  /\ chats[last.id].phase.messageId # last.next.messageId

\* C14: the call returns true exactly when it changed the stored phase to
\* the candidate: it stores the candidate when there is no document or no
\* phase, overwrites value, ts and messageId when the candidate's rank is
\* strictly higher, and otherwise returns false and writes nothing.
C14_AppliedIffStored ==
  [][ UpsertStep =>
        LET c == last'.id
            next == last'.next
            fresh == ~chats[c].exists \/ chats[c].phase.value = "none"
            higher == ~fresh /\ PHASE_PRIORITY(next.value)
                                  > PHASE_PRIORITY(chats[c].phase.value)
        IN /\ last'.wrote = (fresh \/ higher)
           /\ last'.wrote = (chats'[c] # chats[c] /\ chats'[c].phase = next)
           /\ last'.wrote => chats'[c] = [exists |-> TRUE, phase |-> next]
           /\ ~last'.wrote => chats' = chats
           /\ \A o \in Chats \ {c} : chats'[o] = chats[o] ]_vars

C14_Witness ==
  /\ last.op = "upsertChatPhaseIfAdvanced"
  /\ nPhaseCalls = 2
  /\ last.wrote
  /\ chats[last.id].phase = last.next
  /\ PHASE_PRIORITY(last.next.value) > 1

\* A step in which the endpoint handled the request last'.req.
RequestStep == last'.op = "tasksNotifications"

\* C15: a request that passes the checks and names a job that does not exist
\* is answered 200 and changes nothing in the store: no delivery record, no
\* send, no job or chat change, whatever the attempt number (the queue drops
\* the task on the 200).
C15_JobNotFoundIsNoOp ==
  [][ ( /\ RequestStep
        /\ RequestCheck(last'.req) = "pass"
        /\ ~jobs[last'.req.jobId].exists )
      => /\ last'.status = 200
         /\ last'.branch = "job_not_found"
         /\ last'.attempt = last'.req.retryCount + 1
         /\ ~last'.sent
         /\ jobs' = jobs
         /\ deliveries' = deliveries
         /\ chats' = chats
         /\ jobStats' = jobStats
         /\ tasks' = QueueAfter(tasks, [jobId |-> last'.req.jobId,
                                        retryCount |-> last'.req.retryCount], 200)
    ]_vars

C15_Witness ==
  /\ last.op = "tasksNotifications"
  /\ last.branch = "job_not_found"
  /\ last.attempt = MAX_ATTEMPTS + 1
  /\ \E j \in JobIds : jobs[j].exists

\* C16: for a job whose channel is not slack or whose target list is empty,
\* a callback with attempt <= 5 adds the invalid_channel_or_targets failure
\* record, deletes the job and answers 200 without a send.
C16_InvalidTargetsTerminal ==
  [][ ( /\ CallbackStep
        /\ jobs[last'.id].exists
        /\ (jobs[last'.id].channel # "slack" \/ Len(jobs[last'.id].targets) = 0)
        /\ last'.attempt <= MAX_ATTEMPTS )
      => /\ last'.status = 200
         /\ ~jobs'[last'.id].exists
         /\ ~last'.sent
         /\ jobStats'[last'.id].sends = jobStats[last'.id].sends
         /\ deliveries' = deliveries (+)
              SetToBag({Delivery(jobs[last'.id], last'.id, "failure",
                                 last'.attempt, "invalid_channel_or_targets", 200)})
    ]_vars

C16_Witness ==
  /\ last.op = "tasksNotifications"
  /\ last.branch = "invalid_channel_or_targets"
  /\ last.status = 200
  /\ ~jobs[last.id].exists
  /\ BagCardinality(deliveries) = 1

\* C17: a request from a caller that is not the queue is answered 403, one
\* from the queue without a JSON content type or without a string jobId is
\* answered 400, and either leaves jobs, deliveries, chats and the queue as
\* they were and sends nothing.
C17_RejectedRequestsTouchNothing ==
  [][ RequestStep =>
        /\ ~last'.req.fromCloudTasks => last'.status = 403
        /\ (last'.req.fromCloudTasks /\ (~last'.req.json \/ ~last'.req.hasJobId))
             => last'.status = 400
        /\ (~last'.req.fromCloudTasks \/ ~last'.req.json \/ ~last'.req.hasJobId)
             => /\ ~last'.sent
                /\ jobs' = jobs
                /\ deliveries' = deliveries
                /\ chats' = chats
                /\ jobStats' = jobStats
                /\ tasks' = tasks ]_vars

C17_Witness ==
  /\ last.op = "tasksNotifications"
  /\ last.status = 403
  /\ ~last.req.fromCloudTasks
  /\ last.req.json
  /\ last.req.hasJobId
  /\ jobs[last.req.jobId].exists

\* A delivery document with its deliveryId filled in.
Labelled(d) == [d EXCEPT !.deliveryId = "self"]

\* C18 (amended): a delivery record is never deleted, a record whose
\* deliveryId is set never changes, and the only change to a record added
\* without one is the setting of its deliveryId.
C18_AppendOnlyButDeliveryId ==
  [][ /\ BagCardinality(deliveries') >= BagCardinality(deliveries)
      /\ \A d \in BagToSet(deliveries) :
           IF d.deliveryId = "self"
             THEN CopiesIn(d, deliveries') >= CopiesIn(d, deliveries)
             ELSE CopiesIn(d, deliveries') + CopiesIn(Labelled(d), deliveries')
                    >= CopiesIn(d, deliveries) + CopiesIn(Labelled(d), deliveries)
    ]_vars

C18_Witness ==
  /\ \E d \in BagToSet(deliveries) : d.deliveryId = "self"
  /\ \E d \in BagToSet(deliveries) : d.deliveryId = "unset"
  /\ \E p \in Procs : procs[p].pc = "log_id"

\* C18 as first stated: once created, a delivery record is never modified or
\* deleted.
C18_Original ==
  [][ \A d \in BagToSet(deliveries) :
        CopiesIn(d, deliveries') >= CopiesIn(d, deliveries) ]_vars

\* C19: while a job document exists, no step changes its jobId, type,
\* channel, scheduledAt, targets, payload or source, and a step that changes
\* the document only sets sentOnce and lastSentAt.
C19_JobFrame ==
  [][ \A j \in JobIds :
        (jobs[j].exists /\ jobs'[j].exists)
          => /\ JobFields(jobs'[j]) = JobFields(jobs[j])
             /\ jobs'[j] # jobs[j]
                  => /\ jobs'[j].sentOnce
                     /\ jobs'[j] = [jobs[j] EXCEPT !.sentOnce = TRUE,
                                       !.lastSentAt = jobs'[j].lastSentAt] ]_vars

C19_Witness ==
  \E j \in JobIds :
    /\ jobs[j].exists
    /\ jobs[j].sentOnce
    /\ jobs[j].status = "pending"
    /\ nCreates = MaxCreates
    /\ jobStats[j].sends = 1

\* C20: a phase above BotAdded is one that only upsertChatPhaseIfAdvanced
\* stores; such a phase changes only in the write step of
\* upsertChatPhaseIfAdvanced for that chat, and the webhook's chat upsert
\* neither lowers, overwrites nor removes it.
C20_PhaseChangedOnlyByPhaseMachine ==
  [][ \A c \in Chats :
        ( /\ Rank(chats[c]) > PHASE_PRIORITY("BotAdded")
          /\ chats'[c] # chats[c] )
        => \E p \in Procs : /\ procs[p].pc = "phase_write"
                             /\ procs[p].chat = c
                             /\ procs'[p].pc = "idle" ]_vars


\* A step that is one whole createJobAndTask call; the job is last'.id and,
\* the id being derived from the type, its type is jobs'[last'.id].type.
CreateStep == last'.op = "createJobAndTask" /\ nCreates' = nCreates + 1

\* C21: a createJobAndTask call changes a chat's phase only when its type is
\* one of the five base types (bot join, calendly, proposal_1st,
\* agreement_1st, invoice_1st) and the call wrote the job; a call for a
\* proposal_2nd, invoice_2nd or agreement_2nd job leaves every chat as it was.
C21_RemindersLeavePhaseAlone ==
  [][ CreateStep =>
        /\ ( jobs'[last'.id].type \in
               { "follow_up_proposal_2nd", "follow_up_invoice_2nd",
                 "follow_up_agreement_2nd" } ) => chats' = chats
        /\ chats' # chats =>
             /\ last'.wrote
             /\ jobs'[last'.id].type \in
                  { "follow_up_bot_join_call_check", "follow_up_calendly",
                    "follow_up_proposal_1st", "follow_up_agreement_1st",
                    "follow_up_invoice_1st" } ]_vars

\* A reminder job was just written and registered while its chat's phase is
\* below the phase of the reminder's base type.
C21_Witness ==
  /\ last.op = "createJobAndTask"
  /\ last.wrote
  /\ jobs[last.id].type = "follow_up_invoice_2nd"
  /\ BagIn(NewTask(last.id), tasks)
  /\ chats[jobs[last.id].payload.chatId].exists
  /\ Rank(chats[jobs[last.id].payload.chatId]) < PHASE_PRIORITY("InvoiceSent")


\* ------------------------------------------------ the planner on its own
Origins == { k * OriginStep : k \in 0..MaxOriginIndex }

\* scheduleAtJST(sentAt, { days }) for an origin and a day count.  The
\* function has no state: one call from the initial state shows every result.
ScheduleAtCall ==
  /\ last = NoCall
  /\ \E sentAt \in Origins, days \in 1..MaxDays :
       last' = [ op |-> "scheduleAtJST", sentAt |-> sentAt, days |-> days,
                 result |-> scheduleAtJST(sentAt,
                                          [DefaultOpts EXCEPT !.days = days]) ]
  /\ UNCHANGED << jobs, deliveries, chats, tasks, webhookUrl, jobStats,
                  nCreates, nPhaseCalls, procs, people, CACHE, ingest >>

\* getFollowupSchedules(notifType, sentAt) for a type and an origin.
PlanCall ==
  /\ last = NoCall
  /\ \E notifType \in NotificationType, sentAt \in Origins :
       last' = [ op |-> "getFollowupSchedules", type |-> notifType,
                 sentAt |-> sentAt,
                 result |-> getFollowupSchedules(notifType, sentAt) ]
  /\ UNCHANGED << jobs, deliveries, chats, tasks, webhookUrl, jobStats,
                  nCreates, nPhaseCalls, procs, people, CACHE, ingest >>

NextPlan == ScheduleAtCall \/ PlanCall

SpecPlan == Init /\ [][NextPlan]_vars

\* The local (JST) calendar date of an instant, its local minute of the day,
\* and whether a date is one of Monday..Friday.
LocalDate(t) == (t + 9 * 60) \div (24 * 60)
LocalMinute(t) == (t + 9 * 60) % (24 * 60)
IsWeekday(date) == ((date + 4) % 7) \in 1..5

\* s is 15:00 local on a Monday..Friday date D such that exactly n
\* Monday..Friday dates lie after the origin's local date, up to and
\* including D.
NthBusinessDayAt15(origin, n, s) ==
  /\ LocalMinute(s) = 15 * 60
  /\ IsWeekday(LocalDate(s))
  /\ Cardinality({ d \in (LocalDate(origin) + 1)..LocalDate(s) : IsWeekday(d) }) = n

\* C24: the planner returns, in order, for proposal_1st the entries
\* (proposal_1st, +3) and (proposal_2nd, +6); for invoice_1st (invoice_1st, +2)
\* and (invoice_2nd, +4); for calendly (calendly, +1); for agreement_1st
\* (agreement_1st, +2) and (agreement_2nd, +4); for a 2nd type its own single
\* entry (+6 for proposal, +4 for invoice and agreement); each entry at 15:00
\* local that many business days after the origin's local date.
C24_PlannerTable ==
  last.op = "getFollowupSchedules" =>
    LET r == last.result
        Is(i, type, n) ==
          /\ r[i].type = type
          /\ NthBusinessDayAt15(last.sentAt, n, r[i].scheduledAt)
    IN CASE last.type = "follow_up_proposal_1st" ->
              /\ Len(r) = 2
              /\ Is(1, "follow_up_proposal_1st", 3)
              /\ Is(2, "follow_up_proposal_2nd", 6)
         [] last.type = "follow_up_invoice_1st" ->
              /\ Len(r) = 2
              /\ Is(1, "follow_up_invoice_1st", 2)
              /\ Is(2, "follow_up_invoice_2nd", 4)
         [] last.type = "follow_up_calendly" ->
              Len(r) = 1 /\ Is(1, "follow_up_calendly", 1)
         [] last.type = "follow_up_agreement_1st" ->
              /\ Len(r) = 2
              /\ Is(1, "follow_up_agreement_1st", 2)
              /\ Is(2, "follow_up_agreement_2nd", 4)
         [] last.type = "follow_up_proposal_2nd" ->
              Len(r) = 1 /\ Is(1, "follow_up_proposal_2nd", 6)
         [] last.type = "follow_up_invoice_2nd" ->
              Len(r) = 1 /\ Is(1, "follow_up_invoice_2nd", 4)
         [] last.type = "follow_up_agreement_2nd" ->
              Len(r) = 1 /\ Is(1, "follow_up_agreement_2nd", 4)
         [] OTHER -> TRUE

\* The plan of a proposal sent on a Friday (local date): both reminders skip
\* a weekend, the second one two.
C24_Witness ==
  /\ last.op = "getFollowupSchedules"
  /\ last.type = "follow_up_proposal_1st"
  /\ (LocalDate(last.sentAt) + 4) % 7 = 5
  /\ Len(last.result) = 2
  /\ LocalDate(last.result[2].scheduledAt) = LocalDate(last.sentAt) + 10

\* C25: for every origin and every n >= 1, scheduleAtJST returns 15:00 local
\* on a Monday..Friday local date D such that exactly n Monday..Friday dates
\* lie after the origin's local date up to and including D; from a Thursday
\* local date, n = 3 gives the following Tuesday.
C25_NthBusinessDay ==
  last.op = "scheduleAtJST" =>
    /\ NthBusinessDayAt15(last.sentAt, last.days, last.result)
    /\ ( (LocalDate(last.sentAt) + 4) % 7 = 4 /\ last.days = 3 )
         => LocalDate(last.result) = LocalDate(last.sentAt) + 5

\* An origin late on Thursday in UTC, already Friday locally, with n = 3: the
\* result is the following Wednesday.
C25_Witness ==
  /\ last.op = "scheduleAtJST"
  /\ last.days = 3
  /\ getUTCDay(last.sentAt) = 4
  /\ (LocalDate(last.sentAt) + 4) % 7 = 5
  /\ LocalDate(last.result) = LocalDate(last.sentAt) + 5

\* C26: for a bot-join trigger with origin T and L the local time of T + 3h:
\* if the hour of L is in [3, 11] the scheduled instant is 11:00 local on L's
\* local date, otherwise it is exactly T + 3h.
C26_BotJoinSnap ==
  ( last.op = "getFollowupSchedules"
    /\ last.type = "follow_up_bot_join_call_check" ) =>
    LET plus3 == last.sentAt + 3 * 60
        s == last.result[1].scheduledAt
    IN /\ Len(last.result) = 1
       /\ IF LocalMinute(plus3) \div 60 \in 3..11
            THEN /\ LocalDate(s) = LocalDate(plus3)
                 /\ LocalMinute(s) = 11 * 60
            ELSE s = plus3


\* --------------------------------------------- the classifier on its own
\* getFollowupType(msg, type) for a message and its detected type; the
\* function has no state.
ClassifyCall ==
  /\ last = NoCall
  /\ \E msg \in Messages :
       last' = [ op |-> "getFollowupType", msg |-> msg,
                 type |-> detectMessageType(msg),
                 result |-> getFollowupType(msg, detectMessageType(msg)) ]
  /\ UNCHANGED << jobs, deliveries, chats, tasks, webhookUrl, jobStats,
                  nCreates, nPhaseCalls, procs, people, CACHE, ingest >>

NextClassify == ClassifyCall

SpecClassify == Init /\ [][NextClassify]_vars

TriggerMessages ==
  { msg \in Messages :
      /\ msg.from \in { "5106417385", "777000111" }
      /\ msg.caption = ""
      /\ ~msg.photo
      /\ \/ /\ msg.text \in { "Proposal: https://docs.google.com/document/d/1",
                              "book here: https://Calendly.com/acme/intro",
                              "hello team" }
            /\ msg.fileName = "none"
            /\ msg.new_chat_members = << >>
         \/ /\ msg.text = ""
            /\ msg.fileName = "INVOICE_2024.pdf"
            /\ msg.new_chat_members = << >>
         \/ /\ msg.text = ""
            /\ msg.fileName = "none"
            /\ msg.new_chat_members = << "alice", BOT_USERNAME >> }

\* msg.date of those messages: Thursday 1970-01-01 10:00Z (19:00 JST) and
\* Friday 16:00Z (Saturday 01:00 JST).
TriggerOrigins == { 10 * ONE_HOUR_MS, ONE_DAY_MS + 16 * ONE_HOUR_MS }

EnqueueOutcomes == [1..2 -> BOOLEAN]

\* The webhook hands a stored message to handleFollowupTriggers.  The queue's
\* answers matter only when the message is classified.
Trigger ==
  \E msg \in TriggerMessages, c \in Chats, m \in Msgs,
     sentAt \in TriggerOrigins, now \in Times :
    IF getFollowupType(msg, detectMessageType(msg)) = "null"
      THEN HandleFollowupTriggers(msg, c, m, sentAt, now, [i \in 1..2 |-> TRUE])
      ELSE \E enq \in EnqueueOutcomes :
             HandleFollowupTriggers(msg, c, m, sentAt, now, enq)

NextTrigger == Trigger

InitTrigger == InitStores /\ people \in Directories

SpecTrigger == InitTrigger /\ [][NextTrigger]_vars


\* A step that is one whole handleFollowupTriggers call, for message
\* last'.messageId of chat last'.chat.
TriggerStep == last'.op = "handleFollowupTriggers" /\ nCreates' = nCreates + 1

\* C22: for a message whose sender is not in the internal set the classifier
\* gives no type, and the trigger creates no job, registers no task and
\* changes no chat's phase.
C22_OutsidersTriggerNothing ==
  [][ ( TriggerStep /\ last'.msg.from \notin INTERNAL_USER_IDS ) =>
        /\ last'.baseType = "null"
        /\ jobs' = jobs
        /\ tasks' = tasks
        /\ chats' = chats ]_vars

\* An outsider's message with a proposal link was handled, on stores still
\* empty.
C22_Witness ==
  /\ last.op = "handleFollowupTriggers"
  /\ last.msg.from = "777000111"
  /\ combinedHas(last.msg, "proposal")
  /\ combinedHas(last.msg, "docs.google.com")
  /\ last.baseType = "null"
  /\ \A j \in JobIds : ~jobs[j].exists
  /\ tasks = EmptyBag

\* C27: on stores with no job, no task and no chat phase, a teammate's message matching the
\* proposal rule, sent on Thursday 10:00 UTC, leaves after a completed
\* handleFollowupTriggers exactly two jobs, both pending: proposal_1st for the
\* following Tuesday 06:00 UTC and proposal_2nd for the following Friday
\* 06:00 UTC, each registered once with the queue, and the chat's phase is
\* ProposalSent with the triggering message id.
C27_ProposalEndToEnd ==
  [][ ( /\ TriggerStep
        /\ \A j \in JobIds : ~jobs[j].exists
        /\ tasks = EmptyBag
        /\ Rank(chats[last'.chat]) = 0
        /\ last'.msg.from \in INTERNAL_USER_IDS
        /\ last'.baseType = "follow_up_proposal_1st"
        /\ last'.sentAt = 10 * 60
        /\ ~last'.threw )
      => LET c == last'.chat
             m == last'.messageId
             j1 == hashId("follow_up_proposal_1st", c, m)
             j2 == hashId("follow_up_proposal_2nd", c, m)
         IN /\ { j \in JobIds : jobs'[j].exists } = { j1, j2 }
            /\ j1 # j2
            /\ jobs'[j1].type = "follow_up_proposal_1st"
            /\ jobs'[j1].status = "pending"
            /\ jobs'[j1].scheduledAt = 5 * 24 * 60 + 6 * 60
            /\ jobs'[j2].type = "follow_up_proposal_2nd"
            /\ jobs'[j2].status = "pending"
            /\ jobs'[j2].scheduledAt = 8 * 24 * 60 + 6 * 60
            /\ BagToSet(tasks') = { NewTask(j1), NewTask(j2) }
            /\ CopiesIn(NewTask(j1), tasks') = 1
            /\ CopiesIn(NewTask(j2), tasks') = 1
            /\ chats'[c].exists
            /\ chats'[c].phase.value = "ProposalSent"
            /\ chats'[c].phase.messageId = m ]_vars

\* The first trigger of a run was a teammate's proposal of Thursday 10:00 UTC
\* on a chat that had no document, and both registrations succeeded.
C27_Witness ==
  /\ last.op = "handleFollowupTriggers"
  /\ nCreates = 1
  /\ last.baseType = "follow_up_proposal_1st"
  /\ last.sentAt = 10 * 60
  /\ ~last.threw
  /\ BagCardinality(tasks) = 2
  /\ jobs[hashId("follow_up_proposal_2nd", last.chat, last.messageId)].exists


\* ------------------------------------- delivery targets of a trigger
\* Calls of the resolver for the sender, without and with a workspace.
Resolve ==
  \E tgUserId \in { "5106417385", "" }, teamId \in { "", "T1" },
     queryOk \in BOOLEAN :
    ResolveSlackUserIdByTelegramId(tgUserId, teamId, queryOk)

\* The first trigger of a run, for a teammate's message of Thursday 10:00 UTC,
\* with the queue accepting every registration.
TriggerOnce ==
  /\ nCreates = 0
  /\ \E msg \in TriggerMessages, c \in Chats, m \in Msgs :
       /\ msg.from \in INTERNAL_USER_IDS
       /\ HandleFollowupTriggers(msg, c, m, 10 * ONE_HOUR_MS, 0,
                                 [i \in 1..2 |-> TRUE])

NextTarget == TriggerOnce \/ Resolve

SpecTarget == InitTrigger /\ [][NextTarget]_vars

\* The links of the sender's person document (none without a document).
BoundLinks(from) ==
  LET hits == { i \in DOMAIN people : people[i].tgUserId = from }
  IN IF hits = {} THEN << >>
     ELSE people[CHOOSE i \in hits : \A k \in hits : i <= k].slack

\* The one target the priority picks among links: for a workspace ws ("" for
\* none) the first link bound to ws that names a user, else the first enabled
\* link that names a user, else the first link.
Preferred(links, ws) ==
  LET forWs == { i \in DOMAIN links :
                   ws # "" /\ links[i].teamId = ws /\ links[i].userId # "" }
      on == { i \in DOMAIN links : links[i].enabled /\ links[i].userId # "" }
      least(S) == CHOOSE i \in S : \A k \in S : i <= k
  IN IF forWs # {} THEN links[least(forWs)]
     ELSE IF on # {} THEN links[least(on)]
     ELSE links[1]

\* C28: a generic (non-broadcast) trigger makes no choice among the sender's
\* bound targets: every job it writes carries all of the sender's links that
\* have a workspace id and a user id, in the order of the person document, and
\* none when the sender has no person document or no links.  The priority
\* (bound to the given workspace, else enabled, else first) is what the
\* resolver returns on a lookup that is not answered from its cache and whose
\* directory query succeeds, and it returns none when the sender has no
\* person document or no links.
C28_TriggerKeepsAllTargets ==
  [][ /\ ( /\ TriggerStep
           /\ last'.baseType \notin { "null", "follow_up_bot_join_call_check" } )
         => \A j \in JobIds :
              jobs'[j] # jobs[j] =>
                LET links == BoundLinks(last'.msg.from)
                    keep == { i \in DOMAIN links :
                                links[i].teamId # "" /\ links[i].userId # "" }
                    t == jobs'[j].targets
                IN /\ Len(t) = Cardinality(keep)
                   /\ \A i \in keep :
                        t[Cardinality({ k \in keep : k <= i })] =
                          [teamId |-> links[i].teamId, userId |-> links[i].userId]
      /\ ( /\ last'.op = "resolveSlackUserIdByTelegramId"
           /\ last' # last \/ CACHE' # CACHE
           /\ last'.tgUserId # ""
           /\ ~last'.hit
           /\ last'.queryOk )
         => LET links == BoundLinks(last'.tgUserId)
            IN IF links = << >> THEN last'.result = "null"
               ELSE last'.result = Preferred(links, last'.teamId).userId ]_vars

\* A proposal job was written for a sender with two complete links, the
\* second of them the enabled one: both are the job's targets.
C28_Witness ==
  /\ last.op = "handleFollowupTriggers"
  /\ last.baseType = "follow_up_proposal_1st"
  /\ jobs[hashId("follow_up_proposal_1st", last.chat, last.messageId)].targets
       = << [teamId |-> "T1", userId |-> "U1"], [teamId |-> "T2", userId |-> "U2"] >>

\* The statement as written: the targets of a job written by a generic
\* trigger are the one target the priority picks among the sender's links
\* (none when there is no person document or no link).
C28_Original ==
  [][ ( /\ TriggerStep
        /\ last'.baseType \notin { "null", "follow_up_bot_join_call_check" } )
      => \A j \in JobIds :
           jobs'[j] # jobs[j] =>
             LET links == BoundLinks(last'.msg.from)
             IN IF links = << >> THEN jobs'[j].targets = << >>
                ELSE /\ Len(jobs'[j].targets) = 1
                     /\ jobs'[j].targets[1].userId = Preferred(links, "").userId ]_vars

\* ------------------------------------- a failed registration and its replay
\* No task of the queue names job j.
Unregistered(j, q) == \A t \in BagToSet(q) : t.jobId # j

\* C30: a createJobAndTask call that writes the job and registers no task
\* (the registration was rejected) leaves the job pending with no task naming
\* it.  From then on no step changes that: a replay of the call finds the job
\* and registers nothing, and no callback runs for it, so the job stays as
\* written and without a task.
C30_OrphanStaysUnregistered ==
  [][ /\ ( CreateStep /\ last'.wrote /\ tasks' = tasks ) =>
           /\ jobs'[last'.id].exists
           /\ jobs'[last'.id].status = "pending"
           /\ Unregistered(last'.id, tasks')
      /\ \A j \in JobIds :
           ( jobs[j].exists /\ Unregistered(j, tasks) ) =>
             /\ jobs'[j] = jobs[j]
             /\ Unregistered(j, tasks') ]_vars

\* The call was replayed for a job whose registration had been rejected: the
\* replay wrote nothing, and the job is pending with no task.
C30_Witness ==
  /\ last.op = "createJobAndTask"
  /\ last.again
  /\ ~last.wrote
  /\ jobs[last.id].exists
  /\ jobs[last.id].status = "pending"
  /\ ~jobs[last.id].sentOnce
  /\ Unregistered(last.id, tasks)


\* ------------------------------------- callbacks while store writes reject
FaultyCallback ==
  \E t \in BagToSet(tasks), out \in Outcomes, now \in Times,
     fault \in StoreFaults, unhandledAs \in UnhandledAnswers :
    TasksNotificationsFaulty(t, out, now, fault, unhandledAs)

\* One job is created; its callbacks run one at a time.
NextFault == CreateOnce \/ FaultyCallback

SpecFault == Init /\ [][NextFault]_vars

\* C29: every callback for a job ends in a response sent by the handler, and
\* a rejected write to the delivery log or to the job (update, delete) does
\* not change the status chosen for the primary outcome: 200 for a skip, a
\* delivery or a non-retryable error, 500 for a retryable error, a thrown
\* send or a missing webhook URL.
C29_SecondaryFailuresSwallowed ==
  [][ ( last'.op = "tasksNotifications" /\ tasks' # tasks ) =>
        /\ last'.handled
        /\ last'.status = last'.primary ]_vars


\* ------------------------------------------------------ isDuplicateUpdateId
\* The capacity of the dedup cache (1000 in the source), scaled so that
\* evictions happen within the explored calls.
MAX_CACHE == 2

NumUpdateIds == 4
UpdateIds == 1..NumUpdateIds

\* Admissions explored.
MaxAdmitted == 5

\* A cache that never trims.
isDuplicateUpdateIdNoTrim(seen, queue, updateId) ==
  IF updateId \in seen
    THEN [seen |-> seen, queue |-> queue, result |-> TRUE]
    ELSE [seen |-> seen \cup {updateId}, queue |-> Append(queue, updateId),
          result |-> FALSE]

\* A trim that shifts the queue and leaves the set alone.
isDuplicateUpdateIdShiftOnly(seen, queue, updateId) ==
  IF updateId \in seen
    THEN [seen |-> seen, queue |-> queue, result |-> TRUE]
    ELSE LET q == Append(queue, updateId)
         IN [seen |-> seen \cup {updateId},
             queue |-> IF Len(q) > MAX_CACHE THEN Tail(q) ELSE q,
             result |-> FALSE]

\* isDuplicateUpdateId on the cache (seen, queue): a known id answers true
\* and changes nothing; a new id is added to both structures, and when the
\* queue is then longer than MAX_CACHE its oldest id leaves both.
isDuplicateUpdateId(seen, queue, updateId) ==
  IF updateId \in seen
    THEN [seen |-> seen, queue |-> queue, result |-> TRUE]
    ELSE LET s == seen \cup {updateId}
             q == Append(queue, updateId)
         IN IF Len(q) > MAX_CACHE
              THEN [seen |-> s \ {Head(q)}, queue |-> Tail(q), result |-> FALSE]
              ELSE [seen |-> s, queue |-> q, result |-> FALSE]

\* One call of isDuplicateUpdateId on the process's cache.
DedupCall(updateId) ==
  /\ Len(admitted) < MaxAdmitted
  /\ LET r == isDuplicateUpdateId(seenUpdateIds, updateQueue, updateId)
     IN /\ seenUpdateIds' = r.seen
        /\ updateQueue' = r.queue
        /\ admitted' = IF r.result THEN admitted ELSE Append(admitted, updateId)
        /\ last' = [ op |-> "isDuplicateUpdateId", updateId |-> updateId,
                     result |-> r.result ]
  /\ UNCHANGED << jobs, deliveries, chats, tasks, webhookUrl, jobStats, nCreates,
                  nPhaseCalls, procs, people, CACHE, reports_settings, messages,
                  tg_users, chatStats, ensures >>

NextDedup == \E updateId \in UpdateIds : DedupCall(updateId)

SpecDedup == Init /\ [][NextDedup]_vars

\* The ids of the last n entries of a sequence.
LastIds(seq, n) == { seq[i] : i \in { j \in 1..Len(seq) : j > Len(seq) - n } }

C39_CacheBoundedAndInSync ==
  /\ Len(updateQueue) <= MAX_CACHE
  /\ Cardinality(seenUpdateIds) = Len(updateQueue)
  /\ seenUpdateIds = { updateQueue[i] : i \in 1..Len(updateQueue) }

\* A full cache after an eviction.
C39_Witness ==
  /\ Len(updateQueue) = MAX_CACHE
  /\ Len(admitted) > MAX_CACHE
  /\ last.op = "isDuplicateUpdateId"


\* ------------------------------------------------------ ensureReportSetting
\* The inputs: a chat target (the webhook's call), or a target without an id
\* (id 0), each with a label.
EnsureInputs ==
  [ target : [type : {"chat"}, id : Chats \cup {0}], name : {"Title A", "Title B"} ]

\* assertTarget: both target.type and target.id are required.
assertTarget(target) == target.type # "" /\ target.id # 0

\* The payload of tx.create: the label, enabled by default, the target.
ReportSetting(input) ==
  [ exists |-> TRUE, name |-> input.name, enabled |-> TRUE, target |-> input.target ]

\* What a retried commit does when the document appeared after the read: the
\* store aborts the transaction and the client runs the update function
\* again, or the create is refused and the call rejects.
Contentions == { "retry", "reject" }

\* assertTarget, then runTransaction starts; `created` is declared once,
\* outside the update function.
EnsBegin(p, input) ==
  /\ ensures[p].pc = "idle"
  /\ ensures' =
       [ensures EXCEPT ![p] =
          IF assertTarget(input.target)
            THEN [IdleEnsure EXCEPT !.pc = "run",
                    !.id = buildReportSettingId(input.target, "weekly"),
                    !.name = input.name]
            ELSE [IdleEnsure EXCEPT !.pc = "done", !.threw = TRUE]]
  /\ UNCHANGED << jobs, deliveries, chats, tasks, webhookUrl, jobStats, last, nCreates,
                  nPhaseCalls, procs, people, CACHE, seenUpdateIds, updateQueue,
                  admitted, reports_settings, messages, tg_users, chatStats >>

\* One run of the update function: tx.get(ref); an existing document returns
\* at once, otherwise the create is staged and created = true.
EnsRun(p) ==
  /\ ensures[p].pc = "run"
  /\ LET e == ensures[p]
         found == reports_settings[e.id].exists
     IN ensures' =
          [ensures EXCEPT ![p] =
             [e EXCEPT !.pc = "commit", !.snapExists = found,
                       !.staged = ~found,
                       !.created = IF found THEN e.created ELSE TRUE]]
  /\ UNCHANGED << jobs, deliveries, chats, tasks, webhookUrl, jobStats, last, nCreates,
                  nPhaseCalls, procs, people, CACHE, seenUpdateIds, updateQueue,
                  admitted, reports_settings, messages, tg_users, chatStats >>

\* The commit.  Nothing staged, or the document is still absent: the commit
\* succeeds and the call returns `created`.  The document was created since
\* this transaction read it: the transaction does not commit.
EnsCommit(p, contention) ==
  /\ ensures[p].pc = "commit"
  /\ LET e == ensures[p]
         conflict == e.staged /\ reports_settings[e.id].exists
     IN /\ reports_settings' =
             IF e.staged /\ ~conflict
               THEN [reports_settings EXCEPT ![e.id] =
                       ReportSetting([target |-> [type |-> e.id[1], id |-> e.id[2]],
                                      name |-> e.name])]
               ELSE reports_settings
        /\ ensures' =
             [ensures EXCEPT ![p] =
                IF ~conflict THEN [e EXCEPT !.pc = "done", !.result = e.created]
                ELSE IF contention = "retry" THEN [e EXCEPT !.pc = "run"]
                ELSE [e EXCEPT !.pc = "done", !.threw = TRUE]]
  /\ UNCHANGED << jobs, deliveries, chats, tasks, webhookUrl, jobStats, last, nCreates,
                  nPhaseCalls, procs, people, CACHE, seenUpdateIds, updateQueue,
                  admitted, messages, tg_users, chatStats >>

NextEnsure ==
  \/ \E p \in Procs, input \in EnsureInputs : EnsBegin(p, input)
  \/ \E p \in Procs : EnsRun(p)
  \/ \E p \in Procs, contention \in Contentions : EnsCommit(p, contention)

SpecEnsure == Init /\ [][NextEnsure]_vars

\* The calls that returned true.
ReturnedTrue == { p \in Procs : ensures[p].pc = "done" /\ ~ensures[p].threw /\ ensures[p].result }

\* C32: the setting document is created once and never changed afterwards
\* (this part holds), and at most one call returns true (this part fails:
\* a call whose transaction is retried returns the `created` of its first run).
C32_CreatedOnceOneTrue ==
  [][ /\ \A id \in SettingIds :
           reports_settings[id].exists => reports_settings'[id] = reports_settings[id]
      /\ Cardinality(ReturnedTrue') <= 1 ]_vars

\* The part of C32 that holds under every interleaving: a document, once
\* created, is never changed, and a call returns true only if the document
\* exists.
C32_NeverOverwrites ==
  [][ /\ \A id \in SettingIds :
           reports_settings[id].exists => reports_settings'[id] = reports_settings[id]
      /\ \A p \in Procs :
           ( ensures'[p].pc = "done" /\ ensures'[p].result )
             => reports_settings'[ensures'[p].id].exists ]_vars


\* --------------------------------------------------- POST /webhook/telegram
\* Messages of the updates: plain text, a proposal link, a member joining and
\* the bot being added, from a teammate, from an outsider and without a sender.
WebhookMessages ==
  { msg \in Messages :
      /\ msg.from \in { "5106417385", "777000111", "null" }
      /\ msg.caption = ""
      /\ ~msg.photo
      /\ msg.fileName = "none"
      /\ \/ /\ msg.text \in { "Proposal: https://docs.google.com/document/d/1",
                              "hello team" }
            /\ msg.new_chat_members = << >>
         \/ /\ msg.text = ""
            /\ msg.new_chat_members # << >> }

\* update_id of the updates; 0 stands for an update without a numeric id.
WebhookUpdateIds == 0..1

\* msg.date: Thursday 1970-01-01 10:00Z.
WebhookOrigin == 10 * ONE_HOUR_MS

\* The message fields of an update that carries no message are not read.
NoMessage ==
  [ from |-> "null", text |-> "", caption |-> "", fileName |-> "none",
    new_chat_members |-> << >>, photo |-> FALSE ]

Updates ==
  [ update_id : WebhookUpdateIds, hasMessage : {TRUE}, message : WebhookMessages,
    chat : Chats, chatType : {"group", "private"}, message_id : Msgs,
    date : {WebhookOrigin} ]
  \cup
  [ update_id : WebhookUpdateIds, hasMessage : {FALSE}, message : {NoMessage},
    chat : Chats, chatType : {"group"}, message_id : Msgs, date : {WebhookOrigin} ]

\* process.env.MESSAGE_TTL_DAYS || "30"
MESSAGE_TTL_DAYS == 30

\* isCountableMessage: membership events are not counted.
isCountableMessage(type) == type # "member_join" /\ type # "member_leave"

\* A guard that lets every bot-join through.
externalBotJoinNever(msg, type) == FALSE

\* The bot-join guard: the message is a member join, our bot is among the
\* new members, and the sender is not internal.
externalBotJoin(msg, type) ==
  /\ type = "member_join"
  /\ \E i \in 1..Len(msg.new_chat_members) : msg.new_chat_members[i] = BOT_USERNAME
  /\ ~isFromInternal(msg.from)

\* ensureReportSetting run alone: the collection afterwards and the result.
ensureReportSetting(rs, input) ==
  LET id == buildReportSettingId(input.target, "weekly")
  IN IF rs[id].exists THEN [settings |-> rs, created |-> FALSE]
     ELSE [settings |-> [rs EXCEPT ![id] = ReportSetting(input)], created |-> TRUE]

\* Where a request ends: the header checks, the duplicate check, the missing
\* message, the bot-join guard, a throw (msg.from.id of a message without a
\* sender, while the chat document is built), or the end of the handler.
WebhookStage(secretOk, json, update, duplicate) ==
  IF ~secretOk THEN "secret_mismatch"
  ELSE IF ~json THEN "invalid_content_type"
  ELSE IF duplicate THEN "duplicate"
  ELSE IF ~update.hasMessage THEN "no_message"
  ELSE IF externalBotJoin(update.message, detectMessageType(update.message))
    THEN "external_bot_join"
  ELSE IF update.message.from = "null" THEN "threw"
  ELSE "done"

WebhookStatus(stage) ==
  CASE stage = "secret_mismatch" -> 401
    [] stage = "invalid_content_type" -> 415
    [] stage = "threw" -> 500
    [] OTHER -> 200

\* One whole request.  secretOk: no secret is configured or the header
\* carries it; json: the content type names application/json; enq: whether
\* the registrations with the queue succeed.
WebhookTelegram(secretOk, json, update, now, enq) ==
  /\ nCreates < MaxCreates
  /\ Len(admitted) < MaxAdmitted
  /\ LET checked == secretOk /\ json /\ update.update_id # 0
         d == IF checked
                THEN isDuplicateUpdateId(seenUpdateIds, updateQueue, update.update_id)
                ELSE [seen |-> seenUpdateIds, queue |-> updateQueue, result |-> FALSE]
         stage == WebhookStage(secretOk, json, update, d.result)
         msg == update.message
         c == update.chat
         m == update.message_id
         sentAt == update.date
         type == detectMessageType(msg)
         first == ~chats[c].exists
         chats1 == IF first THEN [chats EXCEPT ![c] = buildNewChatRoomDoc(m, sentAt)]
                   ELSE chats
         ens == IF first /\ update.chatType # "private"
                  THEN ensureReportSetting(reports_settings,
                         [target |-> [type |-> "chat", id |-> c], name |-> "Title A"])
                  ELSE [settings |-> reports_settings, created |-> FALSE]
         count == IF first THEN 0 ELSE chatStats[c].messageCount
         baseType == getFollowupType(msg, type)
         schedules == IF baseType = "null" THEN << >>
                      ELSE getFollowupSchedules(baseType, sentAt)
         slackTargets ==
           IF baseType = "follow_up_bot_join_call_check"
             THEN broadcastTargets(people)
             ELSE senderTargets(people, msg.from)
         r == createAll([ jobs |-> jobs, jobStats |-> jobStats,
                          tasks |-> tasks, chats |-> chats1,
                          wrote |-> FALSE, threw |-> FALSE ],
                        schedules, 1, c, m, slackTargets, now, enq)
     IN /\ seenUpdateIds' = d.seen
        /\ updateQueue' = d.queue
        /\ admitted' = IF checked /\ ~d.result THEN Append(admitted, update.update_id)
                       ELSE admitted
        /\ IF stage = "done"
             THEN /\ nCreates' = nCreates + 1
                  /\ reports_settings' = ens.settings
                  /\ messages' =
                       [messages EXCEPT ![<< c, m >>] =
                          [ exists |-> TRUE, updateId |-> update.update_id,
                            fromUserId |-> msg.from, type |-> type, sentAt |-> sentAt,
                            expireAt |-> sentAt + MESSAGE_TTL_DAYS * ONE_DAY_MS ]]
                  /\ chatStats' =
                       [chatStats EXCEPT ![c] =
                          [ latestMessage |-> m,
                            messageCount |-> IF isCountableMessage(type)
                                               THEN count + 1 ELSE count ]]
                  /\ tg_users' =
                       [tg_users EXCEPT ![msg.from] =
                          IF tg_users[msg.from].exists
                            THEN [ exists |-> TRUE, lastSeenAt |-> sentAt,
                                   totalMessages |-> tg_users[msg.from].totalMessages + 1 ]
                            ELSE [ exists |-> TRUE, lastSeenAt |-> sentAt,
                                   totalMessages |-> 1 ]]
                  /\ jobs' = r.jobs
                  /\ jobStats' = r.jobStats
                  /\ tasks' = r.tasks
                  /\ chats' = r.chats
             ELSE UNCHANGED << nCreates, reports_settings, messages, chatStats,
                               tg_users, jobs, jobStats, tasks, chats >>
        /\ last' = [ op |-> "webhookTelegram", secretOk |-> secretOk, json |-> json,
                     update |-> update, stage |-> stage,
                     status |-> WebhookStatus(stage),
                     alert |-> stage = "external_bot_join" /\ webhookUrl,
                     leave |-> stage = "external_bot_join",
                     notice |-> stage = "done" /\ ens.created /\ webhookUrl ]
  /\ UNCHANGED << deliveries, webhookUrl, nPhaseCalls, procs, people, CACHE, ensures >>

\* A request that passes the header checks.
Webhook ==
  \E update \in Updates, now \in Times :
    IF getFollowupType(update.message, detectMessageType(update.message)) = "null"
      THEN WebhookTelegram(TRUE, TRUE, update, now, [i \in 1..2 |-> TRUE])
      ELSE \E enq \in EnqueueOutcomes :
             WebhookTelegram(TRUE, TRUE, update, now, enq)

\* A request that fails a header check; its body is not read.
WebhookRejected ==
  \E secretOk \in BOOLEAN, json \in BOOLEAN :
    /\ ~(secretOk /\ json)
    /\ WebhookTelegram(secretOk, json,
                       CHOOSE u \in Updates : ~u.hasMessage /\ u.update_id = 1,
                       0, [i \in 1..2 |-> TRUE])

\* One message is stored; requests that end before the stores are served
\* before and after it.
NextWebhook ==
  \/ Webhook /\ (nCreates = 0 \/ last'.stage # "done")
  \/ WebhookRejected

SpecWebhook == Init /\ [][NextWebhook]_vars

\* A step that is one whole webhook request carrying, past the header
\* checks, a message in which our bot is among the new members and whose
\* sender is not in the internal set, and that is not a repeated update.
ExternalBotJoinStep ==
  /\ last'.op = "webhookTelegram"
  /\ admitted' # admitted \/ last'.update.update_id = 0
  /\ last'.secretOk /\ last'.json /\ last'.update.hasMessage
  /\ \E i \in 1..Len(last'.update.message.new_chat_members) :
       last'.update.message.new_chat_members[i] = BOT_USERNAME
  /\ last'.update.message.from \notin INTERNAL_USER_IDS

\* C31: a request whose message adds our bot on behalf of a non-internal
\* sender attempts the leave (and the alert when the Slack URL is set),
\* answers 200, and creates or changes no chat, message, user, stats, report
\* setting, job, task or delivery record.
C31_ExternalJoinWritesNothing ==
  [][ ExternalBotJoinStep =>
        /\ last'.status = 200
        /\ last'.leave
        /\ last'.alert = webhookUrl
        /\ chats' = chats
        /\ chatStats' = chatStats
        /\ messages' = messages
        /\ tg_users' = tg_users
        /\ reports_settings' = reports_settings
        /\ jobs' = jobs
        /\ tasks' = tasks
        /\ deliveries' = deliveries ]_vars

\* Such a request was served for a chat that has no document, by an outsider.
C31_Witness ==
  /\ last.op = "webhookTelegram"
  /\ last.stage = "external_bot_join"
  /\ last.update.message.from = "777000111"
  /\ last.update.update_id # 0
  /\ ~chats[last.update.chat].exists
  /\ last.status = 200


\* ------------------------------------------- the callback's order of checks
\* Job documents the callback can read: either type, with or without
\* targets, with the re-send guard set or not.
StoredJobs ==
  { [ NewJobDoc(hashId(t, 1, 1), t, 0, 1, 1, tg, 0) EXCEPT !.sentOnce = s ] :
      t \in DeliveryTypes, tg \in TargetLists, s \in BOOLEAN }

\* The handler's decisions for one document it found, one attempt number,
\* the Slack URL set or not, and one outcome of the send.
OrderCall(job, attempt, url, out) ==
  /\ last = NoCall
  /\ LET b == Branch(job, attempt, url, out)
     IN last' = [ op |-> "checkOrder", job |-> job, attempt |-> attempt,
                  url |-> url, out |-> out, branch |-> b,
                  sends |-> BranchSends(b), deletes |-> BranchDeletes(b),
                  status |-> BranchStatus(b),
                  record |-> BranchLog(b, job, job.jobId, attempt,
                                       IF BranchSends(b) THEN out.status ELSE 0) ]
  /\ UNCHANGED << jobs, deliveries, chats, tasks, webhookUrl, jobStats,
                  nCreates, nPhaseCalls, procs, people, CACHE, ingest >>

NextOrder ==
  \E job \in StoredJobs, attempt \in 1..(MaxRetryCount + 1), url \in BOOLEAN,
     out \in Outcomes :
    OrderCall(job, attempt, url, out)

SpecOrder == Init /\ [][NextOrder]_vars

\* C34: the checks apply in the order attempt ceiling, targets, re-send
\* guard, send.  Past the ceiling the record is the retries-exhausted
\* failure whatever the guard and the targets are; within the ceiling a job
\* without targets gets the invalid-targets failure whatever the guard is;
\* only a job with targets and the guard set gets the already-sent success;
\* only a job with targets and no guard reaches the send (or the missing
\* URL failure).  The first three send nothing, delete the job, answer 200.
C34_CheckOrder ==
  last.op = "checkOrder" =>
    LET job == last.job
        over == last.attempt > MAX_ATTEMPTS
        empty == Len(job.targets) = 0
    IN /\ over =>
            /\ last.record.status = "failure"
            /\ last.record.errorMessage = "max_attempts_reached(5)"
            /\ ~last.sends /\ last.deletes /\ last.status = 200
       /\ (~over /\ empty) =>
            /\ last.record.status = "failure"
            /\ last.record.errorMessage = "invalid_channel_or_targets"
            /\ ~last.sends /\ last.deletes /\ last.status = 200
       /\ (~over /\ ~empty /\ job.sentOnce) =>
            /\ last.record.status = "success"
            /\ last.branch = "already_sentOnce"
            /\ ~last.sends /\ last.deletes /\ last.status = 200
       /\ (~over /\ ~empty /\ ~job.sentOnce) =>
            /\ last.sends = last.url
            /\ ~last.url => last.record.errorMessage = "SLACK_WEBHOOK_URL is not set"
       /\ last.record.attempt = last.attempt
       /\ last.record.jobId = job.jobId

\* The guard is set and the attempt is the 6th: a retries-exhausted failure.
C34_Witness ==
  /\ last.op = "checkOrder"
  /\ last.job.sentOnce
  /\ Len(last.job.targets) > 0
  /\ last.attempt = MAX_ATTEMPTS + 1
  /\ last.record.status = "failure"
  /\ last.record.errorMessage = "max_attempts_reached(5)"


\* A step that is one request to POST /tasks/notifications that passes the
\* header and payload checks.
CheckedRequestStep ==
  /\ last'.op = "tasksNotifications"
  /\ RequestCheck(last'.req) = "pass"

TasksOf(j) == CopiesIn(NewTask(j), tasks)

Registering(j) ==
  { p \in Procs : procs[p].pc \in { "cr_set", "cr_enqueue" } /\ procs[p].jobId = j }

\* C35 (amended): a task is registered only by an execution that read the job
\* as absent and then wrote it, one task per such execution.  An execution
\* that reads the job as present registers nothing, so executions that run one
\* after another register at most one task per jobId; overlapping executions
\* that all read the job as absent register one task each.
C35_OneTaskPerAbsentRead ==
  [][ /\ \A p \in Procs :
           ( procs[p].pc = "idle" /\ procs'[p].pc = "cr_set" )
             => ~jobs[procs'[p].jobId].exists
      /\ tasks' # tasks =>
           \E p \in Procs :
             /\ procs[p].pc = "cr_enqueue"
             /\ jobs[procs[p].jobId].exists
             /\ tasks' = tasks (+) SetToBag({NewTask(procs[p].jobId)})
      /\ \A j \in JobIds :
           TasksOf(j)' + Cardinality(Registering(j)') <= nCreates' ]_vars

\* Two tasks are registered for one jobId.
C35_Witness == \E j \in JobIds : TasksOf(j) = 2 /\ jobs[j].exists

\* C35 as first stated: at most one task per jobId under every interleaving.
C35_Original == \A j \in JobIds : TasksOf(j) <= 1


\* One trigger, then the queue's callbacks for the jobs it registered.
NextUntargeted == TriggerOnce \/ QueueCallback

SpecUntargeted == InitTrigger /\ [][NextUntargeted]_vars

\* The targets handleFollowupTriggers resolves for the trigger recorded in
\* `last`, from the directory.
TriggerTargets(call) ==
  IF call.baseType = "follow_up_bot_join_call_check"
    THEN broadcastTargets(people)
    ELSE senderTargets(people, call.msg.from)

\* C37: a classified trigger that resolves no target and whose registrations
\* succeed leaves, for each of its schedules, a pending job with an empty
\* target list and one task; every callback for a job with an empty target
\* list is a first callback (attempt 1) and sends nothing, adds the
\* invalid_channel_or_targets failure record, deletes the job and answers 200.
C37_UntargetedJobFailsOnFirstCallback ==
  [][ /\ ( TriggerStep /\ last'.baseType # "null" /\ ~last'.threw
           /\ TriggerTargets(last') = << >> ) =>
           \A i \in 1..Len(last'.schedules) :
             LET j == hashId(last'.schedules[i].type, last'.chat, last'.messageId)
             IN /\ jobs'[j].exists
                /\ jobs'[j].status = "pending"
                /\ jobs'[j].targets = << >>
                /\ CopiesIn(NewTask(j), tasks') = 1
      /\ ( CallbackStep /\ jobs[last'.id].exists /\ jobs[last'.id].targets = << >> ) =>
           /\ last'.attempt = 1
           /\ last'.branch = "invalid_channel_or_targets"
           /\ ~last'.sent
           /\ jobStats'[last'.id].sends = jobStats[last'.id].sends
           /\ ~jobs'[last'.id].exists
           /\ last'.status = 200
           /\ CopiesIn(NewTask(last'.id), tasks') = 0
           /\ deliveries' = deliveries (+)
                SetToBag({Delivery(jobs[last'.id], last'.id, "failure", 1,
                                   "invalid_channel_or_targets", 200)})
    ]_vars

\* Both jobs of a proposal trigger without targets ended that way.
C37_Witness ==
  /\ last.op = "tasksNotifications"
  /\ last.branch = "invalid_channel_or_targets"
  /\ BagCardinality(deliveries) = 2
  /\ \A d \in BagToSet(deliveries) :
       d.targets = << >> /\ d.status = "failure" /\ d.attempt = 1
  /\ \A j \in JobIds : ~jobs[j].exists
  /\ tasks = EmptyBag


\* C38: every scheduled instant of a plan is strictly later than the origin,
\* and the bot-join reminder is never earlier than three hours after it.
C38_ScheduledAfterOrigin ==
  last.op = "getFollowupSchedules" =>
    \A i \in 1..Len(last.result) :
      /\ last.result[i].scheduledAt > last.sentAt
      /\ last.type = "follow_up_bot_join_call_check"
           => last.result[i].scheduledAt >= last.sentAt + 3 * ONE_HOUR_MS

\* The part of C38 that holds: the business-day reminders are later than the
\* origin, and a bot-join reminder that is not snapped is exactly three hours
\* after it.
C38_BusinessDaysAfterOrigin ==
  last.op = "getFollowupSchedules" =>
    \A i \in 1..Len(last.result) :
      IF last.type # "follow_up_bot_join_call_check"
        THEN last.result[i].scheduledAt > last.sentAt
        ELSE LocalMinute(last.sentAt + 3 * ONE_HOUR_MS) \div 60 \notin 3..11
               => last.result[i].scheduledAt = last.sentAt + 3 * ONE_HOUR_MS

====
